---- MODULE Spec2Model ----
(***************************************************************************)
(* Model of the dataset/resource synchronisation engine of hdx-python-api  *)
(* (src/hdx/data/dataset.py, src/hdx/data/resource.py) and of its global   *)
(* configuration (src/hdx/hdx_configuration.py).                           *)
(*                                                                         *)
(* A Python dict is a function whose DOMAIN is its key set.  A Resource    *)
(* object is a record [oid, data, file_to_upload]: oid is the identity of  *)
(* the Python object, data its dict, file_to_upload its attribute.         *)
(***************************************************************************)
EXTENDS Integers, Sequences, FiniteSets, TLC

VARIABLES
    data,            \* Dataset.data without the 'resources' key
    data_resources,  \* the 'resources' key of Dataset.data: [present, list]
    old_data,        \* Dataset.old_data: [isNone, fields, hasRes, res]
    resources,       \* Dataset.resources: sequence of Resource objects
    nextOid,         \* identity given to the next Resource object put in a list
    remote,          \* the catalog behind the gateway: [exists, fields, resources]
    calls,           \* gateway calls issued by the last operation, in order
    last,            \* the last operation: its name, inputs and outcome
    pre,             \* the Dataset and the catalog as they were when it started
    nops,            \* operations performed so far
    faults,          \* transport errors injected so far
    pc,              \* where search_in_hdx / get_all_datasets is: idle, while, for,
                     \* endpass, returned, raised
    total_rows,      \* kwargs 'rows' of search_in_hdx, 'limit' of get_all_datasets
    start,           \* kwargs 'start' of search_in_hdx, 'offset' of get_all_datasets
    all_datasets,    \* [isNone, list], list the Datasets collected: each is
                     \* [data, data_resources, old_data, resources]
    attempts,        \* passes discarded so far
    counts,          \* search_in_hdx: the set of counts seen in the current pass
    page,            \* search_in_hdx: the page of the current pass
    passlog,         \* the page requests of the current pass and what each returned
    _configuration,  \* Configuration._configuration, the global configuration
    files            \* the local files that exist, by path

datasetVars == <<data, data_resources, old_data, resources, nextOid, remote, calls,
                 last, pre, nops, faults>>

searchVars == <<pc, total_rows, start, all_datasets, attempts, counts, page, passlog>>

configVars == <<_configuration>>

fileVars == <<files>>

vars == <<datasetVars, searchVars, configVars, fileVars>>

----------------------------------------------------------------------------
(* Bounds *)

MaxAdds == 3
MaxSyncs == 1
MaxFaults == 1
MaxCalls == 8
MaxStart == 1
MaxChecks == 2
MaxConfigOps == 3
MaxFieldOps == 1
MaxDatastoreOps == 1

----------------------------------------------------------------------------
(* Python values *)

None == "None"
EmptyDict == [k \in {} |-> ""]

Has(d, k) == k \in DOMAIN d
DictSet(d, k, v) == [x \in (DOMAIN d) \cup {k} |-> IF x = k THEN v ELSE d[x]]
DictDel(d, k) == [x \in (DOMAIN d) \ {k} |-> d[x]]

\* merge_two_dictionaries(a, b) on dicts of scalars: b is merged into a,
\* the value of b wins for a key both have
merge_two_dictionaries(a, b) ==
    [k \in (DOMAIN a) \cup (DOMAIN b) |-> IF k \in DOMAIN b THEN b[k] ELSE a[k]]

Range(s) == {s[i] : i \in 1..Len(s)}
NamesOf(objs) == {objs[i].data["name"] : i \in 1..Len(objs)}
DictNames(ds) == {ds[i]["name"] : i \in 1..Len(ds)}

\* index of the first element of a sequence of dicts whose key k has value v, 0 if none
FirstDict(ds, k, v) ==
    IF \E i \in 1..Len(ds) : Has(ds[i], k) /\ ds[i][k] = v
    THEN CHOOSE i \in 1..Len(ds) :
            /\ Has(ds[i], k) /\ ds[i][k] = v
            /\ \A j \in 1..(i-1) : ~(Has(ds[j], k) /\ ds[j][k] = v)
    ELSE 0

\* index of the first Resource object of a list with the given name, 0 if none
FirstNamed(objs, name) == FirstDict([i \in 1..Len(objs) |-> objs[i].data], "name", name)

----------------------------------------------------------------------------
(* Schema validator: the required fields of each entity kind *)

RequiredFields(object_type) ==
    CASE object_type = "resource" -> {"package_id", "name", "description", "url",
                                      "resource_type", "url_type"}
      [] object_type = "dataset" -> {"name", "title"}
      [] OTHER -> {"name"}

\* HDXObject._check_required_fields: TRUE iff no required field is missing
_check_required_fields(d, object_type, ignore_fields) ==
    \A f \in RequiredFields(object_type) : Has(d, f) \/ f \in ignore_fields

----------------------------------------------------------------------------
(* Resource *)

\* Resource.__init__: a Resource wrapping a dict has no file to upload
NewResource(oid, d) == [oid |-> oid, data |-> d, file_to_upload |-> None]

\* a default that is written whether or not the key is present
SetDefault_overwrite(d, key, value) == DictSet(d, key, value)

\* Resource.check_required_fields, lines 158-161 and 165-170: a default is
\* written when the key is absent
SetDefault(d, key, value) == IF Has(d, key) THEN d ELSE DictSet(d, key, value)

\* Resource.check_required_fields, lines 171-172
Discard(d, key) == IF Has(d, key) THEN DictDel(d, key) ELSE d

\* Resource.check_required_fields, line 173, d being the data with its defaults
CheckedResource(res, d, ignore_fields) ==
    [raised |-> ~_check_required_fields(d, "resource", ignore_fields),
     res |-> [res EXCEPT !.data = d]]

\* a check that deletes tracking_summary without looking for it first: with a
\* file to upload it raises when the key is absent
ResourceCheckRequiredFields_unguarded(res, ignore_fields) ==
    IF res.file_to_upload = None
    THEN IF Has(res.data, "url")
         THEN CheckedResource(res,
                  SetDefault(SetDefault(res.data, "resource_type", "api"),
                             "url_type", "api"),
                  ignore_fields)
         ELSE [raised |-> TRUE, res |-> res]
    ELSE IF Has(res.data, "tracking_summary")
         THEN CheckedResource(res,
                  DictDel(SetDefault(SetDefault(SetDefault(res.data, "url", "ignore"),
                                                "resource_type", "file.upload"),
                                     "url_type", "upload"),
                          "tracking_summary"),
                  ignore_fields)
         ELSE [raised |-> TRUE, res |-> res]

\* Resource.check_required_fields: [raised, res]; the defaults are written to
\* data before the required fields are checked
ResourceCheckRequiredFields(res, ignore_fields) ==
    IF res.file_to_upload = None
    THEN IF Has(res.data, "url")
         THEN CheckedResource(res,
                  SetDefault(SetDefault(res.data, "resource_type", "api"),
                             "url_type", "api"),
                  ignore_fields)
         ELSE [raised |-> TRUE, res |-> res]
    ELSE CheckedResource(res,
             Discard(SetDefault(SetDefault(SetDefault(res.data, "url", "ignore"),
                                           "resource_type", "file.upload"),
                                "url_type", "upload"),
                     "tracking_summary"),
             ignore_fields)

----------------------------------------------------------------------------
(* Remote Catalog Gateway.  A call is [action, ident, fields, hasRes, res,  *)
(* file, status]: ident is the identifier of a show/hxl call, fields/res    *)
(* the dict sent by a save call, file the file uploaded with it, status     *)
(* how it ended.  A reply is [status, fields, res] with status "ok",        *)
(* "notfound" or "error".                                                   *)

ShowCall(action, ident) ==
    [action |-> action, ident |-> ident, fields |-> EmptyDict, hasRes |-> FALSE,
     res |-> <<>>, file |-> None, status |-> ""]
SaveCall(action, fields, hasRes, res, file) ==
    [action |-> action, ident |-> "", fields |-> fields, hasRes |-> hasRes,
     res |-> res, file |-> file, status |-> ""]

Reply(status, fields, res) == [status |-> status, fields |-> fields, res |-> res]
NoReply == Reply("none", EmptyDict, <<>>)

NoRemote == [exists |-> FALSE, fields |-> EmptyDict, resources |-> <<>>]

\* the identifier the catalog assigns to a new resource of a given name
ResId(name) == CASE name = "a" -> "ra" [] name = "b" -> "rb" [] OTHER -> "rc"

\* the catalog stores a resource under its dataset, with an identifier
ServerResource(d, package_id) ==
    DictSet(SetDefault(d, "id", ResId(d["name"])), "package_id", package_id)

ServerResources(ds, package_id) == [i \in 1..Len(ds) |-> ServerResource(ds[i], package_id)]

Addresses(r, ident) ==
    r.exists /\ (ident = r.fields["id"] \/ ident = r.fields["name"])

\* the answers of the catalog: [remote, reply]
NotFound(r) == [remote |-> r, reply |-> Reply("notfound", EmptyDict, <<>>)]
Refused(r) == [remote |-> r, reply |-> Reply("error", EmptyDict, <<>>)]

\* the catalog stores the dataset fields f with the resources sent
StorePackage(f, res) ==
    [remote |-> [exists |-> TRUE, fields |-> f,
                 resources |-> ServerResources(res, f["id"])],
     reply |-> Reply("ok", f, ServerResources(res, f["id"]))]

\* the catalog returns its resource at position i (0: it has none)
ShowResourceAt(r, i) ==
    IF r.exists /\ i > 0
    THEN [remote |-> r, reply |-> Reply("ok", r.resources[i], <<>>)]
    ELSE NotFound(r)

\* the catalog replaces its resource at position i (0: it has none) by d
StoreResourceAt(r, i, d) ==
    IF r.exists /\ i > 0
    THEN [remote |-> [r EXCEPT !.resources[i] = d], reply |-> Reply("ok", d, <<>>)]
    ELSE NotFound(r)

\* what the catalog does with one call: [remote, reply]
Server(r, c) ==
    CASE c.action \in {"package_show", "package_hxl_update"} ->
            IF Addresses(r, c.ident)
            THEN [remote |-> r, reply |-> Reply("ok", r.fields, r.resources)]
            ELSE NotFound(r)
      [] c.action = "package_create" ->
            IF r.exists \/ ~Has(c.fields, "name")
            THEN Refused(r)
            ELSE StorePackage(SetDefault(c.fields, "id", "id1"), c.res)
      [] c.action = "package_update" ->
            IF Has(c.fields, "id") /\ Addresses(r, c.fields["id"])
            THEN StorePackage(DictSet(c.fields, "id", r.fields["id"]), c.res)
            ELSE NotFound(r)
      [] c.action = "resource_show" ->
            ShowResourceAt(r, FirstDict(r.resources, "id", c.ident))
      [] c.action = "resource_update" ->
            StoreResourceAt(r,
                IF Has(c.fields, "id") THEN FirstDict(r.resources, "id", c.fields["id"])
                ELSE 0,
                IF c.file = None THEN DictSet(c.fields, "package_id", r.fields["id"])
                ELSE DictSet(DictSet(c.fields, "package_id", r.fields["id"]),
                             "url", "filestore"))
      [] OTHER -> Refused(r)

\* the gateway after the catalog answered s to the call c
Answered(g, c, s) ==
    [g EXCEPT !.calls = Append(g.calls, [c EXCEPT !.status = s.reply.status]),
              !.remote = s.remote, !.reply = s.reply]

\* the gateway g = [remote, calls, failAt, reply]: the failAt-th call of the
\* operation fails with a transport error and does not reach the catalog
Invoke(g, c) ==
    IF Len(g.calls) + 1 = g.failAt
    THEN [g EXCEPT !.calls = Append(g.calls, [c EXCEPT !.status = "error"]),
                   !.reply = Reply("error", EmptyDict, <<>>)]
    ELSE Answered(g, c, Server(g.remote, c))

----------------------------------------------------------------------------
(* Dataset: the resource list *)

\* HDXObject._addupdate_hdxobject on the resource list, keyed by name:
\* [resources, nextOid, index] where index is the position of the object returned
_addupdate_hdxobject(hdxobjects, oid, new_data, new_file) ==
    LET i == FirstNamed(hdxobjects, new_data["name"])
    IN  IF i > 0
        THEN [resources |-> [hdxobjects EXCEPT
                               ![i].data = merge_two_dictionaries(hdxobjects[i].data, new_data)],
              nextOid |-> oid, index |-> i]
        ELSE [resources |-> Append(hdxobjects,
                               [oid |-> oid, data |-> new_data, file_to_upload |-> new_file]),
              nextOid |-> oid + 1, index |-> Len(hdxobjects) + 1]

\* Resource.set_file_to_upload on the object at position i of a list
set_file_to_upload(objs, i, file_to_upload) ==
    [objs EXCEPT ![i].file_to_upload = file_to_upload]

\* Resource.read_from_hdx, called at line 154: g1 is the gateway after resource_show
ReadResource(g1) ==
    [g |-> g1, raised |-> g1.reply.status = "error",
     isResource |-> g1.reply.status = "ok",
     data |-> g1.reply.fields, file |-> None]

\* Dataset.add_update_resource, lines 153-156: a resource id is read from the
\* catalog, a dict is wrapped into a Resource: [g, raised, isResource, data, file]
CoerceResource(g, resource) ==
    CASE resource.kind = "str" ->
            ReadResource(Invoke(g, ShowCall("resource_show", resource.data["id"])))
      [] resource.kind = "dict" ->
            [g |-> g, raised |-> FALSE, isResource |-> TRUE,
             data |-> resource.data, file |-> None]
      [] resource.kind = "Resource" ->
            [g |-> g, raised |-> FALSE, isResource |-> TRUE,
             data |-> resource.data, file |-> resource.file_to_upload]
      [] OTHER ->
            [g |-> g, raised |-> FALSE, isResource |-> FALSE,
             data |-> EmptyDict, file |-> None]

\* Dataset.add_update_resource, line 162: u is what _addupdate_hdxobject
\* returned for the resource c
SetUpdatedFile(S, c, u) ==
    [S EXCEPT !.g = c.g, !.nextOid = u.nextOid,
              !.resources = set_file_to_upload(u.resources, u.index, c.file)]

\* AddCoerced that appends the resource without looking for its name
AddCoerced_append(S, c, ignore_datasetid) ==
    IF c.raised \/ ~c.isResource
    THEN [S EXCEPT !.g = c.g, !.raised = TRUE]
    ELSE IF Has(c.data, "package_id") /\ ~ignore_datasetid
    THEN [S EXCEPT !.g = c.g, !.raised = TRUE]
    ELSE [S EXCEPT !.g = c.g, !.nextOid = S.nextOid + 1,
                   !.resources = Append(S.resources,
                        [oid |-> S.nextOid, data |-> c.data, file_to_upload |-> c.file])]

\* AddCoerced that never looks at package_id
AddCoerced_nocheck(S, c, ignore_datasetid) ==
    IF c.raised \/ ~c.isResource
    THEN [S EXCEPT !.g = c.g, !.raised = TRUE]
    ELSE SetUpdatedFile(S, c, _addupdate_hdxobject(S.resources, S.nextOid, c.data, c.file))

\* Dataset.add_update_resource, lines 157-164, c being the resource after
\* lines 153-156
AddCoerced(S, c, ignore_datasetid) ==
    IF c.raised \/ ~c.isResource
    THEN [S EXCEPT !.g = c.g, !.raised = TRUE]
    ELSE IF Has(c.data, "package_id") /\ ~ignore_datasetid
    THEN [S EXCEPT !.g = c.g, !.raised = TRUE]
    ELSE SetUpdatedFile(S, c, _addupdate_hdxobject(S.resources, S.nextOid, c.data, c.file))

\* Dataset.add_update_resource on S = [resources, nextOid, g, raised]
add_update_resource(S, resource, ignore_datasetid) ==
    AddCoerced(S, CoerceResource(S.g, resource), ignore_datasetid)

\* Dataset.add_update_resources: the loop stops at the first resource that raises
RECURSIVE add_update_resources(_, _, _)
add_update_resources(S, rs, ignore_datasetid) ==
    IF rs = <<>> \/ S.raised THEN S
    ELSE add_update_resources(add_update_resource(S, Head(rs), ignore_datasetid),
                              Tail(rs), ignore_datasetid)

----------------------------------------------------------------------------
(* Dataset: synchronisation with the catalog.  The handlers work on        *)
(* S = [data, dres, old, resources, nextOid, g, raised, loaded]: the         *)
(* Dataset (dres is data['resources'], old is old_data), the gateway, and    *)
(* whether an exception is propagating / what the last load returned.        *)

\* HDXObject._convert_hdxobjects: the dicts of the objects
_convert_hdxobjects(hdxobjects) == [i \in 1..Len(hdxobjects) |-> hdxobjects[i].data]

\* HDXObject._copy_hdxobjects(hdxobjects, Resource, 'file_to_upload'):
\* copies of the dicts, each with the file_to_upload of its original
_copy_hdxobjects(hdxobjects) ==
    [i \in 1..Len(hdxobjects) |->
        [data |-> hdxobjects[i].data, file_to_upload |-> hdxobjects[i].file_to_upload]]

\* the dicts of data['resources'] as they sit in old_data after a save
RawCopies(ds) == [i \in 1..Len(ds) |-> [data |-> ds[i], file_to_upload |-> None]]

\* new Resource objects for the dicts ds, with identities oid, oid+1, ...
NewResources(ds, oid) == [i \in 1..Len(ds) |-> NewResource(oid + i - 1, ds[i])]

\* the dicts of ds whose name is not in names, in order
RECURSIVE SelectDicts(_, _)
SelectDicts(ds, names) ==
    IF ds = <<>> THEN <<>>
    ELSE IF Head(ds)["name"] \in names THEN SelectDicts(Tail(ds), names)
    ELSE <<Head(ds)>> \o SelectDicts(Tail(ds), names)

\* separate_resources that puts the new Resource objects in reverse order
separate_resources_reversed(S) ==
    LET new == IF S.dres.present THEN S.dres.list ELSE <<>>
        merged == [i \in 1..Len(S.resources) |->
                     LET j == FirstDict(new, "name", S.resources[i].data["name"])
                     IN  IF j = 0 THEN S.resources[i]
                         ELSE [S.resources[i] EXCEPT
                                 !.data = merge_two_dictionaries(S.resources[i].data, new[j])]]
        added == SelectDicts(new, NamesOf(S.resources))
        reversed == [i \in 1..Len(added) |-> added[Len(added) + 1 - i]]
    IN  [S EXCEPT !.resources = merged \o NewResources(reversed, S.nextOid),
                  !.nextOid = S.nextOid + Len(added),
                  !.dres = [present |-> FALSE, list |-> <<>>]]

\* Dataset.separate_resources (HDXObject._separate_hdxobjects): the dicts of
\* data['resources'] are merged into the resources of the same name, the
\* others become new Resource objects, and the key is removed from data
separate_resources(S) ==
    LET new == IF S.dres.present THEN S.dres.list ELSE <<>>
        merged == [i \in 1..Len(S.resources) |->
                     LET j == FirstDict(new, "name", S.resources[i].data["name"])
                     IN  IF j = 0 THEN S.resources[i]
                         ELSE [S.resources[i] EXCEPT
                                 !.data = merge_two_dictionaries(S.resources[i].data, new[j])]]
        added == SelectDicts(new, NamesOf(S.resources))
    IN  [S EXCEPT !.resources = merged \o NewResources(added, S.nextOid),
                  !.nextOid = S.nextOid + Len(added),
                  !.dres = [present |-> FALSE, list |-> <<>>]]

\* Dataset._dataset_create_resources
_dataset_create_resources(S) ==
    IF S.dres.present
    THEN separate_resources(
            [S EXCEPT !.old.hasRes = TRUE,
                      !.old.res = _copy_hdxobjects(S.resources),
                      !.resources = <<>>])
    ELSE S

\* HDXObject._load_from_hdx after the read, g1 being the gateway after
\* package_show: on success old_data is the former data and data the
\* catalog's copy; "not found" is a normal FALSE
Loaded(S, g1) ==
    IF g1.reply.status = "ok"
    THEN [S EXCEPT !.g = g1, !.loaded = TRUE,
                   !.old = [isNone |-> FALSE, fields |-> S.data,
                            hasRes |-> S.dres.present, res |-> RawCopies(S.dres.list)],
                   !.data = g1.reply.fields,
                   !.dres = [present |-> TRUE, list |-> g1.reply.res]]
    ELSE IF g1.reply.status = "notfound"
    THEN [S EXCEPT !.g = g1, !.loaded = FALSE]
    ELSE [S EXCEPT !.g = g1, !.loaded = FALSE, !.raised = TRUE]

\* HDXObject._load_from_hdx('dataset', id_or_name)
_load_from_hdx(S, id_or_name) ==
    Loaded(S, Invoke(S.g, ShowCall("package_show", id_or_name)))

\* Dataset._dataset_load_from_hdx, lines 269-272
CreateResourcesIfLoaded(S) ==
    IF S.raised \/ ~S.loaded THEN S ELSE _dataset_create_resources(S)

\* Dataset._dataset_load_from_hdx
_dataset_load_from_hdx(S, id_or_name) ==
    CreateResourcesIfLoaded(_load_from_hdx(S, id_or_name))

\* Dataset.is_requestable
is_requestable(d) == Has(d, "is_requestdata_type") /\ d["is_requestdata_type"] = "True"

\* Dataset.check_required_fields, lines 292-294: every resource is validated
\* in order; the first that fails raises.  CheckedAt is the list after the
\* resource at i was validated with outcome c.
RECURSIVE CheckResources(_, _, _)
RECURSIVE CheckedAt(_, _, _, _)
CheckedAt(rs, i, c, ignore_fields) ==
    IF c.raised THEN [resources |-> [rs EXCEPT ![i] = c.res], raised |-> TRUE]
    ELSE CheckResources([rs EXCEPT ![i] = c.res], i + 1, ignore_fields)

CheckResources(rs, i, ignore_fields) ==
    IF i > Len(rs) THEN [resources |-> rs, raised |-> FALSE]
    ELSE CheckedAt(rs, i, ResourceCheckRequiredFields(rs[i], ignore_fields), ignore_fields)

\* the Dataset with its resources validated as c = [resources, raised]
WithChecked(S, c) == [S EXCEPT !.resources = c.resources, !.raised = c.raised]

\* Dataset.check_required_fields without the test of lines 290-291
check_required_fields_noempty(S, allow_no_resources) ==
    IF is_requestable(S.data)
    THEN [S EXCEPT !.raised = ~_check_required_fields(S.data, "dataset-requestable", {})]
    ELSE IF ~_check_required_fields(S.data, "dataset", {})
    THEN [S EXCEPT !.raised = TRUE]
    ELSE WithChecked(S, CheckResources(S.resources, 1, {"package_id"}))

\* Dataset.check_required_fields
check_required_fields(S, allow_no_resources) ==
    IF is_requestable(S.data)
    THEN [S EXCEPT !.raised = ~_check_required_fields(S.data, "dataset-requestable", {})]
    ELSE IF ~_check_required_fields(S.data, "dataset", {})
    THEN [S EXCEPT !.raised = TRUE]
    ELSE IF Len(S.resources) = 0 /\ ~allow_no_resources
    THEN [S EXCEPT !.raised = TRUE]
    ELSE WithChecked(S, CheckResources(S.resources, 1, {"package_id"}))

\* HDXObject._save_to_hdx after the write, g1 being the gateway after it: on
\* success old_data is what was sent and data what the catalog returned; any
\* failure raises
Saved(S, g1) ==
    IF g1.reply.status = "ok"
    THEN [S EXCEPT !.g = g1,
                   !.old = [isNone |-> FALSE, fields |-> S.data,
                            hasRes |-> S.dres.present, res |-> RawCopies(S.dres.list)],
                   !.data = g1.reply.fields,
                   !.dres = [present |-> TRUE, list |-> g1.reply.res]]
    ELSE [S EXCEPT !.g = g1, !.raised = TRUE]

\* HDXObject._save_to_hdx(action, id_field) of the Dataset: data, with its
\* 'resources' key, is sent
_save_to_hdx(S, action) ==
    Saved(S, Invoke(S.g, SaveCall(action, S.data, S.dres.present, S.dres.list, None)))

\* HDXObject._update_in_hdx of a resource, after resource_update was sent with
\* the dict d, g2 being the gateway after it
ResourceSaved(g2, d) ==
    IF g2.reply.status = "ok"
    THEN [g |-> g2, raised |-> FALSE, data |-> g2.reply.fields]
    ELSE [g |-> g2, raised |-> TRUE, data |-> d]

\* HDXObject._update_in_hdx of a resource: the dict d is saved with the file
ResourceSave(g1, d, file_to_upload) ==
    ResourceSaved(Invoke(g1, SaveCall("resource_update", d, FALSE, <<>>, file_to_upload)), d)

\* HDXObject._update_in_hdx of a resource, g1 being the gateway after
\* resource_show: the resource's fields are merged over the catalog's copy
ResourceLoaded(g1, res) ==
    IF g1.reply.status # "ok"
    THEN [g |-> g1, raised |-> TRUE, data |-> res.data]
    ELSE ResourceSave(g1, merge_two_dictionaries(g1.reply.fields, res.data),
                      res.file_to_upload)

\* Resource.update_in_hdx (HDXObject._update_in_hdx('resource', 'id', file)):
\* the resource must have an id and exist in the catalog; the catalog's copy
\* is loaded, the resource's fields are merged over it and the result is
\* saved together with the file: [g, raised, data]
ResourceUpdateInHdx(g, res) ==
    IF ~Has(res.data, "id")
    THEN [g |-> g, raised |-> TRUE, data |-> res.data]
    ELSE ResourceLoaded(Invoke(g, ShowCall("resource_show", res.data["id"])), res)

\* UploadedAt without the merge back into the returned resource (line 342)
UploadedAt_nomergeback(S, i, j, u) ==
    IF u.raised
    THEN [S EXCEPT !.g = u.g, !.raised = TRUE, !.resources[i].data = u.data]
    ELSE [S EXCEPT !.g = u.g, !.resources[i].data = u.data]

\* Dataset._dataset_merge_hdx_update, line 342 (create_in_hdx, line 407): u is
\* the outcome of update_in_hdx of the resource at i, j the position of the
\* returned resource of its name
UploadedAt(S, i, j, u) ==
    IF u.raised
    THEN [S EXCEPT !.g = u.g, !.raised = TRUE, !.resources[i].data = u.data]
    ELSE [S EXCEPT !.g = u.g, !.resources[i].data = u.data,
                   !.dres.list[j] = merge_two_dictionaries(S.dres.list[j], u.data)]

\* Dataset._dataset_merge_hdx_update, lines 340-341 (create_in_hdx, lines
\* 405-406): the resource at i takes the fields of the returned resource at j
\* and is updated with its file
UploadAt(S, i, j) ==
    UploadedAt(S, i, j,
        ResourceUpdateInHdx(S.g,
            [S.resources[i] EXCEPT
                !.data = merge_two_dictionaries(S.resources[i].data, S.dres.list[j])]))

\* UploadFilestoreResources that goes on to the next resource after a failure
RECURSIVE UploadFilestoreResources_goeson(_, _, _)
UploadFilestoreResources_goeson(S, filestore_resources, k) ==
    IF k > Len(filestore_resources) THEN S
    ELSE IF FirstDict(S.dres.list, "name",
                      S.resources[filestore_resources[k]].data["name"]) = 0
    THEN UploadFilestoreResources_goeson(S, filestore_resources, k + 1)
    ELSE UploadFilestoreResources_goeson(
            [UploadAt(S, filestore_resources[k],
                      FirstDict(S.dres.list, "name",
                                S.resources[filestore_resources[k]].data["name"]))
                EXCEPT !.raised = @ \/ S.raised],
            filestore_resources, k + 1)

\* Dataset._dataset_merge_hdx_update, lines 336-342, and Dataset.create_in_hdx,
\* lines 402-408: each resource of filestore_resources (positions in
\* S.resources) takes the fields of the returned resource of its name, is
\* updated with its file, and is merged back into the returned resource
RECURSIVE UploadFilestoreResources(_, _, _)
UploadFilestoreResources(S, filestore_resources, k) ==
    IF S.raised \/ k > Len(filestore_resources) THEN S
    ELSE IF FirstDict(S.dres.list, "name",
                      S.resources[filestore_resources[k]].data["name"]) = 0
    THEN UploadFilestoreResources(S, filestore_resources, k + 1)
    ELSE UploadFilestoreResources(
            UploadAt(S, filestore_resources[k],
                     FirstDict(S.dres.list, "name",
                               S.resources[filestore_resources[k]].data["name"])),
            filestore_resources, k + 1)

\* MergedAt without line 323: the merged resource is not queued for upload
MergedAt_notqueued(M, i, o, c) ==
    [M EXCEPT !.resources[i] = c.res, !.raised = c.raised]

\* Dataset._dataset_merge_hdx_update, lines 321-324: the resource at i was
\* merged with old_resource o and validated with outcome c
MergedAt(M, i, o, c) ==
    [M EXCEPT !.resources[i] = c.res,
              !.filestore = IF o.file_to_upload # None THEN Append(M.filestore, i)
                            ELSE M.filestore,
              !.raised = c.raised]

\* MergeAt that merges the catalog's fields over the local ones
MergeAt_remotewins(M, i, o) ==
    MergedAt(M, i, o,
        ResourceCheckRequiredFields(
            [M.resources[i] EXCEPT
                !.data = merge_two_dictionaries(o.data, M.resources[i].data),
                !.file_to_upload = IF o.file_to_upload # None THEN o.file_to_upload
                                   ELSE M.resources[i].file_to_upload],
            {"package_id"}))

\* Dataset._dataset_merge_hdx_update, lines 320-324: old_resource o is merged
\* over the resource at i, which takes its file and is validated
MergeAt(M, i, o) ==
    MergedAt(M, i, o,
        ResourceCheckRequiredFields(
            [M.resources[i] EXCEPT
                !.data = merge_two_dictionaries(M.resources[i].data, o.data),
                !.file_to_upload = IF o.file_to_upload # None THEN o.file_to_upload
                                   ELSE M.resources[i].file_to_upload],
            {"package_id"}))

\* Dataset._dataset_merge_hdx_update, lines 314-325: M = [resources,
\* filestore, raised, nextOid]; old_resources are the copies in old_data
RECURSIVE MergeOldIntoResources(_, _, _)
MergeOldIntoResources(M, old_resources, i) ==
    IF M.raised \/ i > Len(M.resources) THEN M
    ELSE IF FirstNamed(old_resources, M.resources[i].data["name"]) = 0
    THEN MergeOldIntoResources(M, old_resources, i + 1)
    ELSE MergeOldIntoResources(
            MergeAt(M, i, old_resources[FirstNamed(old_resources,
                                                   M.resources[i].data["name"])]),
            old_resources, i + 1)

\* Dataset._dataset_merge_hdx_update, lines 328-331: old_resource was validated
\* with outcome c and is appended
AppendedOld(M, c) ==
    IF c.raised THEN [M EXCEPT !.raised = TRUE]
    ELSE [M EXCEPT !.resources = Append(M.resources, c.res),
                   !.nextOid = M.nextOid + 1,
                   !.filestore = IF c.res.file_to_upload # None
                                 THEN Append(M.filestore, Len(M.resources) + 1)
                                 ELSE M.filestore]

\* Dataset._dataset_merge_hdx_update, lines 326-331: the copies whose name is
\* not in resource_names are validated and appended
RECURSIVE AppendOldResources(_, _, _, _)
AppendOldResources(M, old_resources, resource_names, j) ==
    IF M.raised \/ j > Len(old_resources) THEN M
    ELSE IF old_resources[j].data["name"] \in resource_names
    THEN AppendOldResources(M, old_resources, resource_names, j + 1)
    ELSE AppendOldResources(
            AppendedOld(M, ResourceCheckRequiredFields(
                               [oid |-> M.nextOid, data |-> old_resources[j].data,
                                file_to_upload |-> old_resources[j].file_to_upload],
                               {"package_id"})),
            old_resources, resource_names, j + 1)

\* Dataset._dataset_merge_hdx_update, lines 309-310: old_data.get('resources')
\* and the empty filestore_resources
OldResources(S) == IF S.old.hasRes THEN S.old.res ELSE <<>>
NoneMerged(S) ==
    [resources |-> S.resources, filestore |-> <<>>, raised |-> FALSE, nextOid |-> S.nextOid]

\* MergeResources without the loop of lines 326-331
MergeResources_noappend(S, update_resources) ==
    IF update_resources /\ OldResources(S) # <<>>
    THEN MergeOldIntoResources(NoneMerged(S), OldResources(S), 1)
    ELSE NoneMerged(S)

\* MergeResources without the test of line 327: every copy is appended
MergeResources_nofilter(S, update_resources) ==
    IF update_resources /\ OldResources(S) # <<>>
    THEN AppendOldResources(MergeOldIntoResources(NoneMerged(S), OldResources(S), 1),
                            OldResources(S), {}, 1)
    ELSE NoneMerged(S)

\* MergeResources that merges whatever update_resources is
MergeResources_always(S, update_resources) ==
    IF OldResources(S) # <<>>
    THEN AppendOldResources(MergeOldIntoResources(NoneMerged(S), OldResources(S), 1),
                            OldResources(S), NamesOf(S.resources), 1)
    ELSE NoneMerged(S)

\* Dataset._dataset_merge_hdx_update, lines 309-331: the resources to send,
\* as M = [resources, filestore, raised, nextOid]
MergeResources(S, update_resources) ==
    IF update_resources /\ OldResources(S) # <<>>
    THEN AppendOldResources(MergeOldIntoResources(NoneMerged(S), OldResources(S), 1),
                            OldResources(S), NamesOf(S.resources), 1)
    ELSE NoneMerged(S)

\* Dataset._dataset_merge_hdx_update, lines 306-308 and 332-333: data is the
\* merged dict without its 'resources' key, and the resources M are
\* serialised into data['resources']
Serialised(S, merged, M) ==
    [S EXCEPT !.data = merged, !.resources = M.resources,
              !.nextOid = M.nextOid, !.raised = M.raised,
              !.dres = IF M.resources # <<>> /\ ~M.raised
                       THEN [present |-> TRUE, list |-> _convert_hdxobjects(M.resources)]
                       ELSE [present |-> FALSE, list |-> <<>>]]

\* Dataset._dataset_merge_hdx_update, lines 334-342, and Dataset.create_in_hdx,
\* lines 401-408: the dataset is saved and the files are uploaded
SaveAndUpload(S, action, filestore_resources) ==
    IF S.raised THEN S
    ELSE UploadFilestoreResources(_save_to_hdx(S, action), filestore_resources, 1)

\* Dataset._dataset_merge_hdx_update, lines 306-308 and 332-342
SaveMerged(S, merged, M) ==
    SaveAndUpload(Serialised(S, merged, M), "package_update", M.filestore)

\* _dataset_merge_hdx_update that merges the catalog's fields over the caller's
_dataset_merge_hdx_update_remotewins(S, update_resources) ==
    SaveMerged(S, merge_two_dictionaries(S.old.fields, S.data),
               MergeResources(S, update_resources))

\* Dataset._dataset_merge_hdx_update: old_data holds the caller's data, data
\* the catalog's copy
_dataset_merge_hdx_update(S, update_resources) ==
    SaveMerged(S, merge_two_dictionaries(S.data, S.old.fields),
               MergeResources(S, update_resources))

\* Dataset.hxl_update after the call, g1 being the gateway after
\* package_hxl_update: "not found" is returned and ignored, another failure raises
HxlUpdated(S, g1) == [S EXCEPT !.g = g1, !.raised = (g1.reply.status = "error")]

\* Dataset.hxl_update
hxl_update(S) ==
    IF ~Has(S.data, "id") THEN [S EXCEPT !.raised = TRUE]
    ELSE HxlUpdated(S, Invoke(S.g, ShowCall("package_hxl_update", S.data["id"])))

\* Dataset.update_in_hdx, lines 354-360, and Dataset.create_in_hdx, lines
\* 379-384: the dataset is loaded by its id, if it has one
LoadById(S) ==
    IF S.raised THEN S
    ELSE IF Has(S.data, "id") THEN _dataset_load_from_hdx(S, S.data["id"])
    ELSE [S EXCEPT !.loaded = FALSE]

\* Dataset.update_in_hdx, lines 363-364
RaiseUnlessLoaded(S) == IF S.raised \/ S.loaded THEN S ELSE [S EXCEPT !.raised = TRUE]

\* LoadByNameOrRaise that raises when the load by id found nothing
LoadByNameOrRaise_hard(S) ==
    IF S.raised \/ S.loaded THEN S
    ELSE IF Has(S.data, "id") \/ ~Has(S.data, "name") THEN [S EXCEPT !.raised = TRUE]
    ELSE RaiseUnlessLoaded(_dataset_load_from_hdx(S, S.data["name"]))

\* Dataset.update_in_hdx, lines 361-364
LoadByNameOrRaise(S) ==
    IF S.raised \/ S.loaded THEN S
    ELSE IF ~Has(S.data, "name") THEN [S EXCEPT !.raised = TRUE]
    ELSE RaiseUnlessLoaded(_dataset_load_from_hdx(S, S.data["name"]))

\* Dataset.update_in_hdx, line 365
MergeHdxUpdate(S, update_resources) ==
    IF S.raised THEN S ELSE _dataset_merge_hdx_update(S, update_resources)

\* Dataset.update_in_hdx, line 366
HxlUpdate(S) == IF S.raised THEN S ELSE hxl_update(S)

\* update_in_hdx that refreshes the HXL metadata before it saves
update_in_hdx_hxlfirst(S, update_resources) ==
    MergeHdxUpdate(HxlUpdate(LoadByNameOrRaise(LoadById(S))), update_resources)

\* Dataset.update_in_hdx
update_in_hdx(S, update_resources) ==
    HxlUpdate(MergeHdxUpdate(LoadByNameOrRaise(LoadById(S)), update_resources))

\* Dataset.create_in_hdx, lines 393-399: the positions of the resources with a
\* file to upload
FilestorePositions(rs) ==
    LET idx == {i \in 1..Len(rs) : rs[i].file_to_upload # None}
        RECURSIVE Sorted(_, _)
        Sorted(i, acc) == IF i > Len(rs) THEN acc
                          ELSE Sorted(i + 1, IF i \in idx THEN Append(acc, i) ELSE acc)
    IN  Sorted(1, <<>>)

\* Dataset.create_in_hdx, lines 394-400: the resources, validated as
\* c = [resources, raised], are serialised into data['resources']
SerialisedChecked(S, c) ==
    [S EXCEPT !.resources = c.resources, !.raised = c.raised,
              !.dres = IF S.resources # <<>> /\ ~c.raised
                       THEN [present |-> TRUE, list |-> _convert_hdxobjects(c.resources)]
                       ELSE S.dres]

\* Dataset.create_in_hdx, lines 401-408
CreateAndUpload(S) == SaveAndUpload(S, "package_create", FilestorePositions(S.resources))

\* Dataset.create_in_hdx, lines 409-411
InitResourcesAndHxl(S) ==
    IF S.raised THEN S
    ELSE hxl_update(separate_resources([S EXCEPT !.resources = <<>>]))

\* Dataset.create_in_hdx, lines 393-411: the dataset does not exist yet
CreateNew(S) ==
    InitResourcesAndHxl(
        CreateAndUpload(
            SerialisedChecked(S, CheckResources(S.resources, 1, {"package_id"}))))

\* Dataset.create_in_hdx, lines 385-387
LoadByName(S) ==
    IF S.raised \/ S.loaded THEN S ELSE _dataset_load_from_hdx(S, S.data["name"])

\* the rest of create_in_hdx after an update-merge that did not raise
CreateAfterMerge(S) == IF S.raised THEN S ELSE CreateNew(S)

\* UpdateOrCreate without the return of line 391: after the update-merge it
\* goes on to create the dataset
UpdateOrCreate_noreturn(S) ==
    IF S.raised THEN S
    ELSE IF S.loaded THEN CreateAfterMerge(_dataset_merge_hdx_update(S, TRUE))
    ELSE CreateNew(S)

\* Dataset.create_in_hdx, lines 388-411
UpdateOrCreate(S) ==
    IF S.raised THEN S
    ELSE IF S.loaded THEN _dataset_merge_hdx_update(S, TRUE)
    ELSE CreateNew(S)

\* Dataset.create_in_hdx
create_in_hdx(S, allow_no_resources) ==
    UpdateOrCreate(LoadByName(LoadById(check_required_fields(S, allow_no_resources))))

----------------------------------------------------------------------------
(* Inputs *)

Names == {"a", "b", "c"}

\* resource metadata a caller passes in
ResourceData(n) ==
    { [name |-> n, url |-> "u1", description |-> "d1"],
      [name |-> n, description |-> "d2"],
      [name |-> n, url |-> "u1", description |-> "d1", package_id |-> "idX"] }

AsDict(d) == [kind |-> "dict", data |-> d, file_to_upload |-> None]
AsResource(d, f) == [kind |-> "Resource", data |-> d, file_to_upload |-> f]
AsStr(id) == [kind |-> "str", data |-> [id |-> id], file_to_upload |-> None]
NotAResource == [kind |-> "int", data |-> EmptyDict, file_to_upload |-> None]

\* what the catalog holds for a resource and for a dataset
RemoteResource(n) ==
    [name |-> n, id |-> ResId(n), package_id |-> "id1", url |-> "u0",
     description |-> "d0", resource_type |-> "api", url_type |-> "api",
     tracking_summary |-> "ts"]

RemoteDataset(names) ==
    [exists |-> TRUE, fields |-> [id |-> "id1", name |-> "n1", title |-> "t0"],
     resources |-> [i \in 1..Len(names) |-> RemoteResource(names[i])]]

----------------------------------------------------------------------------
(* Dataset.search_in_hdx: the paginated search.  A page reply is            *)
(* [result, count, results]: result is whether the result of               *)
(* _read_from_hdx is truthy, count its 'count' (NoCount: no such key),      *)
(* results its 'results', a list of dataset dicts.                          *)

max_attempts == 5

\* 1000 in the source; the pages of the model are short
page_size == 2

NoCount == -1
Ids == 1..3
Counts == {NoCount, 0, 1, 2}

DatasetDict(i) == [id |-> i]

\* the 'resources' array of the raw record of dataset i: the record of
\* dataset 1 has no such key, that of dataset 2 an empty array, that of
\* dataset 3 two resources
RawResources(i) ==
    CASE i = 1 -> [present |-> FALSE, list |-> <<>>]
      [] i = 2 -> [present |-> TRUE, list |-> <<>>]
      [] OTHER -> [present |-> TRUE,
                   list |-> <<RemoteResource("a"), RemoteResource("b")>>]

\* the Dataset as _dataset_create_resources left it
AsDataset(S) ==
    [data |-> S.data, data_resources |-> S.dres, old_data |-> S.old,
     resources |-> S.resources]

\* lines 476-478 and 552-554: Dataset(), old_data = dict(), data = datasetdict
WrappedBare(datasetdict) ==
    [data |-> datasetdict, dres |-> RawResources(datasetdict.id),
     old |-> [isNone |-> FALSE, fields |-> EmptyDict, hasRes |-> FALSE, res |-> <<>>],
     resources |-> <<>>, nextOid |-> 1]

\* lines 476-479 without the call of _dataset_create_resources
Wrapped_notseparated(datasetdict) == AsDataset(WrappedBare(datasetdict))

\* lines 476-479 and 552-555: the Dataset made of a dataset dict of a page
Wrapped(datasetdict) == AsDataset(_dataset_create_resources(WrappedBare(datasetdict)))

\* the Datasets made of the dataset dicts of a page, in order
WrappedAll(results) == [k \in DOMAIN results |-> Wrapped(results[k])]

ResultLists == UNION {[1..n -> {DatasetDict(i) : i \in Ids}] : n \in 0..page_size}

NoResult == [result |-> FALSE, count |-> NoCount, results |-> <<>>]

Replies ==
    {NoResult} \cup {[result |-> TRUE, count |-> c, results |-> r] :
                        c \in Counts, r \in ResultLists}

\* Python truth of result.get('count', None)
Truthy(count) == count # NoCount /\ count # 0

Min(a, b) == IF a < b THEN a ELSE b

\* the pages of range(total_rows // page_size + 1)
Pages(rows) == 0..(rows \div page_size)

\* the request of a page that always asks for a full page
PageRequest_fullpage(p) ==
    [start |-> start + p * page_size, rows |-> page_size]

\* dataset.py lines 463-467: the request of a page
PageRequest(p) ==
    [start |-> start + p * page_size,
     rows |-> Min(total_rows - p * page_size, page_size)]

\* no search is in progress
NoSearch ==
    /\ pc = "idle"
    /\ total_rows = 0
    /\ start = 0
    /\ all_datasets = [isNone |-> TRUE, list |-> <<>>]
    /\ attempts = 0
    /\ counts = {}
    /\ page = 0
    /\ passlog = <<>>

----------------------------------------------------------------------------
(* Configuration.  A Configuration is [isNone, sites, urls, hdx_site,        *)
(* hdx_read_only, remoteckan]: sites the site keys its data defines, urls    *)
(* those of them that have a 'url', remoteckan whether _remoteckan is set.   *)
(* kwargs is [hdx_config_dict, hdx_config_json, hdx_config_yaml,             *)
(* project_config_dict, project_config_json, project_config_yaml, hdx_site,  *)
(* hdx_read_only]: hdx_config_dict is "" when not given, the others of the   *)
(* first six tell whether the argument is given.                             *)

\* line 49, and None as an argument
NoConfiguration ==
    [isNone |-> TRUE, sites |-> {}, urls |-> {}, hdx_site |-> "",
     hdx_read_only |-> FALSE, remoteckan |-> FALSE]

NoGlobalConfiguration == _configuration = NoConfiguration

\* the site keys of an HDX configuration dictionary and those with a url: the
\* dictionaries loaded from a file define both sites in full, a dictionary
\* passed in may leave out the url of the test site
SitesOf(hdx_config_dict) == {"hdx_prod_site", "hdx_test_site"}
UrlsOf(hdx_config_dict) ==
    IF hdx_config_dict = "nourl" THEN {"hdx_prod_site"}
    ELSE {"hdx_prod_site", "hdx_test_site"}

\* Configuration.__init__, lines 59-82: more than one HDX configuration given
MoreThanOneHdx(kwargs) ==
    \/ kwargs.hdx_config_dict # "" /\ kwargs.hdx_config_json
    \/ (kwargs.hdx_config_dict # "" \/ kwargs.hdx_config_json) /\ kwargs.hdx_config_yaml

\* Configuration.__init__, lines 84-107: more than one project configuration given
MoreThanOneProject(kwargs) ==
    \/ kwargs.project_config_dict /\ kwargs.project_config_json
    \/ (kwargs.project_config_dict \/ kwargs.project_config_json)
          /\ kwargs.project_config_yaml

\* Configuration.__init__, line 122
SiteKey(hdx_site) == IF hdx_site = "test" THEN "hdx_test_site"
                     ELSE IF hdx_site = "prod" THEN "hdx_prod_site"
                     ELSE "hdx_feature_site"

\* Configuration.__init__, lines 59-82: the HDX configuration dictionary used
HdxConfigDict(kwargs) == IF kwargs.hdx_config_dict # "" THEN kwargs.hdx_config_dict ELSE "full"

\* Configuration.__init__ (Configuration(**kwargs)): [raised, configuration]
ConfigurationInit(kwargs) ==
    IF MoreThanOneHdx(kwargs) \/ MoreThanOneProject(kwargs)
    THEN [raised |-> TRUE, configuration |-> NoConfiguration]
    ELSE IF SiteKey(kwargs.hdx_site) \notin SitesOf(HdxConfigDict(kwargs))
    THEN [raised |-> TRUE, configuration |-> NoConfiguration]
    ELSE [raised |-> FALSE,
          configuration |-> [isNone |-> FALSE,
                             sites |-> SitesOf(HdxConfigDict(kwargs)),
                             urls |-> UrlsOf(HdxConfigDict(kwargs)),
                             hdx_site |-> SiteKey(kwargs.hdx_site),
                             hdx_read_only |-> kwargs.hdx_read_only,
                             remoteckan |-> FALSE]]

\* the class after a call: C = [_configuration, error], error the exception
\* the call raised ("" for none)

\* Configuration.setup, lines 351-352: c is the outcome of Configuration(**kwargs)
Constructed(C, c) ==
    IF c.raised THEN [C EXCEPT !.error = "ConfigurationError"]
    ELSE [C EXCEPT !._configuration = c.configuration]

\* Configuration.setup
setup(C, configuration, kwargs) ==
    IF configuration.isNone THEN Constructed(C, ConfigurationInit(kwargs))
    ELSE [C EXCEPT !._configuration = configuration]

\* Configuration.get_hdx_site_url, line 172: the site has no 'url'
NoSiteUrl(configuration) == configuration.hdx_site \notin configuration.urls

\* Configuration._create, lines 382-383: setup_remoteckan, which reads the site
\* url when no remoteckan is passed, and then get_hdx_site_url
SetupRemoteckan(C, remoteckan) ==
    IF C.error # "" THEN C
    ELSE IF NoSiteUrl(C._configuration)
    THEN [C EXCEPT !._configuration.remoteckan = IF remoteckan THEN TRUE ELSE @,
                   !.error = "KeyError"]
    ELSE [C EXCEPT !._configuration.remoteckan = TRUE]

\* Configuration._create
_create(C, configuration, remoteckan, kwargs) ==
    SetupRemoteckan(setup(C, configuration, kwargs), remoteckan)

\* create without the test of lines 410-411
create_again(C, configuration, remoteckan, kwargs) ==
    _create(C, configuration, remoteckan, kwargs)

\* Configuration.create
create(C, configuration, remoteckan, kwargs) ==
    IF ~C._configuration.isNone THEN [C EXCEPT !.error = "ConfigurationError"]
    ELSE _create(C, configuration, remoteckan, kwargs)

\* a delete that leaves the global configuration in place
delete_noop(C) == C

\* Configuration.delete
delete(C) == [C EXCEPT !._configuration = NoConfiguration]

\* Configuration.read
read(C) == IF C._configuration.isNone THEN [C EXCEPT !.error = "ConfigurationError"] ELSE C

\* Configuration.setup_remoteckan, lines 255-258, on the configuration that
\* read() returns: create_remoteckan reads the url of the site
setup_remoteckan(C, passed) ==
    IF C.error # "" THEN C
    ELSE IF passed THEN [C EXCEPT !._configuration.remoteckan = TRUE]
    ELSE IF NoSiteUrl(C._configuration) THEN [C EXCEPT !.error = "KeyError"]
    ELSE [C EXCEPT !._configuration.remoteckan = TRUE]

\* Configuration.remoteckan(), lines 201-203, on the configuration that read()
\* returns
get_remoteckan(C) ==
    IF C.error # "" THEN C
    ELSE IF ~C._configuration.remoteckan THEN [C EXCEPT !.error = "ConfigurationError"]
    ELSE C

----------------------------------------------------------------------------
(* Dataset: update frequency, dataset date and maintainer.  A text is a    *)
(* sequence of one-character strings, so that lower(), strftime(),         *)
(* strptime() and split() work on it character by character                *)

Uppercase == <<"A","B","C","D","E","F","G","H","I","J","K","L","M",
               "N","O","P","Q","R","S","T","U","V","W","X","Y","Z">>
Lowercase == <<"a","b","c","d","e","f","g","h","i","j","k","l","m",
               "n","o","p","q","r","s","t","u","v","w","x","y","z">>

\* the character c with the letters of one alphabet replaced by those of another
Recase(c, from, to) ==
    IF \E i \in 1..26 : from[i] = c THEN to[CHOOSE i \in 1..26 : from[i] = c] ELSE c

\* str.lower() and str.upper()
lower(s) == [i \in 1..Len(s) |-> Recase(s[i], Uppercase, Lowercase)]
upper(s) == [i \in 1..Len(s) |-> Recase(s[i], Lowercase, Uppercase)]

\* what dict.get gives for a key the table does not have
NoFrequency == <<"None">>

\* Dataset.update_frequencies
update_frequencies ==
       (<<"-","2">> :> <<"A","d","h","o","c">>)
    @@ (<<"-","1">> :> <<"N","e","v","e","r">>)
    @@ (<<"0">> :> <<"L","i","v","e">>)
    @@ (<<"1">> :> <<"E","v","e","r","y"," ","d","a","y">>)
    @@ (<<"7">> :> <<"E","v","e","r","y"," ","w","e","e","k">>)
    @@ (<<"1","4">> :> <<"E","v","e","r","y"," ","t","w","o"," ","w","e","e","k","s">>)
    @@ (<<"3","0">> :> <<"E","v","e","r","y"," ","m","o","n","t","h">>)
    @@ (<<"9","0">> :> <<"E","v","e","r","y"," ","t","h","r","e","e"," ","m","o","n","t","h","s">>)
    @@ (<<"1","8","0">> :> <<"E","v","e","r","y"," ","s","i","x"," ","m","o","n","t","h","s">>)
    @@ (<<"3","6","5">> :> <<"E","v","e","r","y"," ","y","e","a","r">>)
    @@ (<<"a","d","h","o","c">> :> <<"-","2">>)
    @@ (<<"n","e","v","e","r">> :> <<"-","1">>)
    @@ (<<"l","i","v","e">> :> <<"0">>)
    @@ (<<"e","v","e","r","y"," ","d","a","y">> :> <<"1">>)
    @@ (<<"e","v","e","r","y"," ","w","e","e","k">> :> <<"7">>)
    @@ (<<"e","v","e","r","y"," ","t","w","o"," ","w","e","e","k","s">> :> <<"1","4">>)
    @@ (<<"e","v","e","r","y"," ","m","o","n","t","h">> :> <<"3","0">>)
    @@ (<<"e","v","e","r","y"," ","t","h","r","e","e"," ","m","o","n","t","h","s">> :> <<"9","0">>)
    @@ (<<"e","v","e","r","y"," ","s","i","x"," ","m","o","n","t","h","s">> :> <<"1","8","0">>)
    @@ (<<"e","v","e","r","y"," ","y","e","a","r">> :> <<"3","6","5">>)
    @@ (<<"d","a","i","l","y">> :> <<"1">>)
    @@ (<<"w","e","e","k","l","y">> :> <<"7">>)
    @@ (<<"f","o","r","t","n","i","g","h","t","l","y">> :> <<"1","4">>)
    @@ (<<"e","v","e","r","y"," ","o","t","h","e","r"," ","w","e","e","k">> :> <<"1","4">>)
    @@ (<<"m","o","n","t","h","l","y">> :> <<"3","0">>)
    @@ (<<"q","u","a","r","t","e","r","l","y">> :> <<"9","0">>)
    @@ (<<"s","e","m","i","a","n","n","u","a","l","l","y">> :> <<"1","8","0">>)
    @@ (<<"s","e","m","i","y","e","a","r","l","y">> :> <<"1","8","0">>)
    @@ (<<"a","n","n","u","a","l","l","y">> :> <<"3","6","5">>)
    @@ (<<"y","e","a","r","l","y">> :> <<"3","6","5">>)

\* Dataset.transform_update_frequency without the lower() of line 788
transform_update_frequency_nolower(frequency) ==
    IF frequency \in DOMAIN update_frequencies
    THEN update_frequencies[frequency] ELSE NoFrequency

\* Dataset.transform_update_frequency(frequency)
transform_update_frequency(frequency) ==
    IF lower(frequency) \in DOMAIN update_frequencies
    THEN update_frequencies[lower(frequency)] ELSE NoFrequency

\* a datetime.datetime (hour stands for its time of day), and None
Datetime(year, month, day, hour) ==
    [isNone |-> FALSE, year |-> year, month |-> month, day |-> day, hour |-> hour]
NoDatetime == [isNone |-> TRUE, year |-> 0, month |-> 0, day |-> 0, hour |-> 0]

Digits == <<"0","1","2","3","4","5","6","7","8","9">>
Digit(n) == Digits[n + 1]

\* n in decimal, and n in decimal zero-filled to a width
RECURSIVE Decimal(_)
Decimal(n) == IF n < 10 THEN <<Digit(n)>> ELSE Append(Decimal(n \div 10), Digit(n % 10))
RECURSIVE ZeroFilled(_, _)
ZeroFilled(n, width) ==
    IF width = 0 THEN <<>> ELSE Append(ZeroFilled(n \div 10, width - 1), Digit(n % 10))

\* datetime.strftime('%m/%d/%Y'): %m and %d are zero-filled to two digits; %Y
\* is what the C library of the build makes of it, zero-filled to four digits
\* (padded) or the bare number
strftime(d, padded) ==
    ZeroFilled(d.month, 2) \o <<"/">> \o ZeroFilled(d.day, 2) \o <<"/">>
        \o (IF padded THEN ZeroFilled(d.year, 4) ELSE Decimal(d.year))

\* sep in s, and s.split(sep)
In(sep, s) == \E i \in 1..Len(s) : s[i] = sep
RECURSIVE split(_, _)
split(s, sep) ==
    IF ~In(sep, s) THEN <<s>>
    ELSE LET i == CHOOSE i \in 1..Len(s) : s[i] = sep /\ \A j \in 1..(i - 1) : s[j] # sep
         IN <<SubSeq(s, 1, i - 1)>> \o split(SubSeq(s, i + 1, Len(s)), sep)

\* the number a text of digits stands for
IsNumber(s) == Len(s) > 0 /\ \A i \in 1..Len(s) : \E n \in 0..9 : s[i] = Digit(n)
RECURSIVE Number(_)
Number(s) ==
    IF Len(s) = 0 THEN 0
    ELSE 10 * Number(SubSeq(s, 1, Len(s) - 1))
         + (CHOOSE n \in 0..9 : s[Len(s)] = Digit(n))

\* datetime.strptime(s, '%m/%d/%Y'): %m and %d take one or two digits, %Y
\* takes exactly four; ValueError otherwise.  [raised, value]
Parsed(parts) ==
    IF /\ Len(parts) = 3
       /\ \A i \in 1..3 : IsNumber(parts[i])
       /\ Len(parts[1]) <= 2 /\ Len(parts[2]) <= 2 /\ Len(parts[3]) = 4
       /\ Number(parts[1]) \in 1..12 /\ Number(parts[2]) \in 1..31
       /\ Number(parts[3]) >= 1
    THEN [raised |-> FALSE,
          value |-> Datetime(Number(parts[3]), Number(parts[1]), Number(parts[2]), 0)]
    ELSE [raised |-> TRUE, value |-> NoDatetime]
strptime(s) == Parsed(split(s, "/"))

\* self.data.get('dataset_date', None), and whether it is truthy
DatasetDate(d) == IF Has(d, "dataset_date") THEN d["dataset_date"] ELSE <<>>
HasDatasetDate(d) == Has(d, "dataset_date") /\ Len(d["dataset_date"]) > 0

\* Dataset.get_dataset_date_type()
get_dataset_date_type(d) ==
    IF HasDatasetDate(d)
    THEN IF In("-", DatasetDate(d)) THEN "range" ELSE "date"
    ELSE None

\* Dataset.get_dataset_date_as_datetime(): [raised, value]
get_dataset_date_as_datetime(d) ==
    IF HasDatasetDate(d)
    THEN strptime(IF In("-", DatasetDate(d))
                  THEN split(DatasetDate(d), "-")[1] ELSE DatasetDate(d))
    ELSE [raised |-> FALSE, value |-> NoDatetime]

\* Dataset.get_dataset_end_date_as_datetime(): [raised, value]
get_dataset_end_date_as_datetime(d) ==
    IF HasDatasetDate(d) /\ In("-", DatasetDate(d))
    THEN strptime(split(DatasetDate(d), "-")[2])
    ELSE [raised |-> FALSE, value |-> NoDatetime]

\* Dataset.set_dataset_date_from_datetime(dataset_date, dataset_end_date)
set_dataset_date_from_datetime(d, dataset_date, dataset_end_date, padded) ==
    DictSet(d, "dataset_date",
            IF dataset_end_date.isNone THEN strftime(dataset_date, padded)
            ELSE strftime(dataset_date, padded) \o <<"-">>
                     \o strftime(dataset_end_date, padded))

\* int(update_frequency) of line 814 does not raise ValueError: the text is
\* a run of digits, with or without a sign
IsInt(s) ==
    /\ Len(s) > 0
    /\ LET digits == IF s[1] \in {"-", "+"} THEN Tail(s) ELSE s
       IN  Len(digits) > 0 /\ \A i \in 1..Len(digits) : digits[i] \in Range(Digits)

\* set_expected_update_frequency, lines 813-816: the text itself when int()
\* accepts it, its transform when int() raises ValueError
Coded(update_frequency) ==
    IF IsInt(update_frequency)
    THEN update_frequency ELSE transform_update_frequency(update_frequency)

\* set_expected_update_frequency, lines 817-819, code being the text of line 816
StoreFrequency(d, code) ==
    IF code = NoFrequency \/ code = <<>>
    THEN [raised |-> "HDXError", data |-> d]
    ELSE [raised |-> "", data |-> DictSet(d, "data_update_frequency", code)]

\* Dataset.set_expected_update_frequency(update_frequency)
set_expected_update_frequency(d, update_frequency) ==
    StoreFrequency(d, Coded(update_frequency))

\* Dataset.get_expected_update_frequency()
get_expected_update_frequency(d) ==
    IF Has(d, "data_update_frequency") /\ d["data_update_frequency"] # <<>>
    THEN transform_update_frequency(d["data_update_frequency"])
    ELSE NoFrequency

\* the users of the catalog by name, and the identifiers that are UUIDs
Uuids == {"7e1b1a0c-uuid", "c2d4e6f8-uuid"}
Users == ("ann" :> "7e1b1a0c-uuid") @@ ("bob" :> "bob")
is_valid_uuid(x) == x \in Uuids

\* a maintainer argument: a dict or User with or without 'id' and 'name', a
\* str (its text in id), or a value of another type
Maintainer(type, id, name) == [type |-> type, id |-> id, name |-> name]

\* User.read_from_hdx(name): the user's 'id', None if there is no such user
UserReadFromHdx(name) == IF name \in DOMAIN Users THEN Users[name] ELSE None

\* lines 1004-1008: the identifier of the maintainer.  [raised, id, lookups]
MaintainerId(maintainer) ==
    IF maintainer.type \in {"User", "dict"}
    THEN IF maintainer.id # None
         THEN [raised |-> "", id |-> maintainer.id, lookups |-> <<>>]
         ELSE IF maintainer.name = None
              THEN [raised |-> "KeyError", id |-> None, lookups |-> <<>>]
              ELSE [raised |-> IF UserReadFromHdx(maintainer.name) = None
                               THEN "TypeError" ELSE "",
                    id |-> UserReadFromHdx(maintainer.name),
                    lookups |-> <<ShowCall("user_show", maintainer.name)>>]
    ELSE IF maintainer.type # "str"
         THEN [raised |-> "HDXError", id |-> None, lookups |-> <<>>]
         ELSE [raised |-> "", id |-> maintainer.id, lookups |-> <<>>]

\* lines 1009-1011 without the check of the identifier
StoreMaintainer_unchecked(d, m) ==
    IF m.raised # "" THEN [raised |-> m.raised, data |-> d, lookups |-> m.lookups]
    ELSE [raised |-> "", data |-> DictSet(d, "maintainer", m.id), lookups |-> m.lookups]

\* lines 1009-1011: the identifier is checked and stored.  [raised, data, lookups]
StoreMaintainer(d, m) ==
    IF m.raised # "" THEN [raised |-> m.raised, data |-> d, lookups |-> m.lookups]
    ELSE IF ~is_valid_uuid(m.id)
         THEN [raised |-> "HDXError", data |-> d, lookups |-> m.lookups]
         ELSE [raised |-> "", data |-> DictSet(d, "maintainer", m.id),
               lookups |-> m.lookups]

\* Dataset.set_maintainer(maintainer)
set_maintainer(d, maintainer) == StoreMaintainer(d, MaintainerId(maintainer))

----------------------------------------------------------------------------
(* Resource.create_datastore.  The local files are a set of paths.  The    *)
(* call works on D = [files, created, calls, raised, path, zip_path,        *)
(* delete_after_download, obtained]: created are the files the call itself  *)
(* made, calls its gateway calls, obtained whether it got its local file.   *)
(* fault names the step of the call that fails, "none" if none does.        *)

NoFiles == files = {}

\* splitext(path)[1].lower() == '.zip'
IsZip(path) == path \in {"given.zip", "download.zip"}

\* Download.download_file(url, folder): the path of the downloaded file
DownloadedPath(url) == IF url = "u.zip" THEN "download.zip" ELSE "download.csv"

\* join(tempdir, filename): the path of the file extracted from the archive
ExtractedPath == "extracted.csv"

\* os.unlink(path)
unlink(D, path) == [D EXCEPT !.files = @ \ {path}]

\* the call makes the file at path
Creates(D, path) == [D EXCEPT !.files = @ \cup {path}, !.created = @ \cup {path}]

\* a gateway call about the datastore of the resource, answered or failing
DatastoreCall(D, action, resource, failing) ==
    [D EXCEPT !.calls = Append(@, [ShowCall(action, resource.data["id"])
                                      EXCEPT !.status = IF failing THEN "error" ELSE "ok"]),
              !.raised = failing]

\* lines 291-299: delete_first
DeleteFirst(D, resource, primary_key, delete_first) ==
    IF delete_first = 0 THEN D
    ELSE IF delete_first = 1 \/ (delete_first = 2 /\ primary_key = None)
         THEN DatastoreCall(D, "datastore_delete", resource, FALSE)
         ELSE IF delete_first = 2 THEN D
              ELSE [D EXCEPT !.raised = TRUE]

\* lines 300-308: the local file is the one given or the resource downloaded
ObtainFile(D, resource, path, fault) ==
    IF D.raised THEN D
    ELSE IF ~Has(resource.data, "url") \/ (path = None /\ fault = "download")
         THEN [D EXCEPT !.raised = TRUE]
         ELSE IF path = None
              THEN [Creates(D, DownloadedPath(resource.data["url"])) EXCEPT
                       !.path = DownloadedPath(resource.data["url"]),
                       !.delete_after_download = TRUE, !.obtained = TRUE]
              ELSE [D EXCEPT !.path = path, !.obtained = TRUE]

\* lines 313-320: the first member of a zip archive is extracted; ZipFile()
\* or extract() may raise before a file is made, and extract() may raise
\* after it made the file (a member that fails its CRC check, a full disk)
ExtractZip(D, fault) ==
    IF D.raised \/ ~IsZip(D.path) THEN D
    ELSE IF fault \in {"zipfile", "extract"} THEN [D EXCEPT !.raised = TRUE]
         ELSE IF fault = "extract_partial"
              THEN [Creates(D, ExtractedPath) EXCEPT !.raised = TRUE]
              ELSE [Creates(D, ExtractedPath) EXCEPT
                       !.zip_path = D.path, !.path = ExtractedPath]

\* lines 328-339: the stream is opened and the datastore created
OpenAndCreate(D, resource, fault) ==
    IF D.raised THEN D
    ELSE IF fault = "open" THEN [D EXCEPT !.raised = TRUE]
         ELSE DatastoreCall(D, "datastore_create", resource, fault = "datastore_create")

\* lines 347-356: the rows are sent in chunks, chunks of them being left
RECURSIVE UploadChunks(_, _, _, _)
UploadChunks(D, resource, chunks, fault) ==
    IF D.raised THEN D
    ELSE IF fault = "read" THEN [D EXCEPT !.raised = TRUE]
         ELSE IF chunks = 0 THEN D
              ELSE UploadChunks(
                      DatastoreCall(D, "datastore_upsert", resource,
                                    fault = "datastore_upsert"),
                      resource, chunks - 1, IF fault = "read_later" THEN "read" ELSE fault)

\* lines 359-368: the finally clause
Cleanup(D) ==
    IF ~D.obtained THEN D
    ELSE IF D.delete_after_download
         THEN IF D.zip_path # None THEN unlink(unlink(D, D.path), D.zip_path)
              ELSE unlink(D, D.path)
         ELSE IF D.zip_path # None THEN unlink(D, D.path) ELSE D

\* Resource.create_datastore(schema, primary_key, delete_first, path)
create_datastore(D, resource, primary_key, delete_first, path, chunks, fault) ==
    Cleanup(UploadChunks(
              OpenAndCreate(
                ExtractZip(
                  ObtainFile(DeleteFirst(D, resource, primary_key, delete_first),
                             resource, path, fault),
                  fault),
                resource, fault),
              resource, chunks, fault))

----------------------------------------------------------------------------
(* State shared by the specifications *)

NoOldData == [isNone |-> TRUE, fields |-> EmptyDict, hasRes |-> FALSE, res |-> <<>>]
NoDataResources == [present |-> FALSE, list |-> <<>>]

Snapshot ==
    [data |-> data, data_resources |-> data_resources, resources |-> resources,
     nextOid |-> nextOid, remote |-> remote]

Op(op, outcome, flag, args, failAt) ==
    [op |-> op, outcome |-> outcome, flag |-> flag, args |-> args, failAt |-> failAt]

Outcome(raised) == IF raised THEN "raised" ELSE "ok"

StartGateway(failAt) ==
    [remote |-> remote, calls |-> <<>>, failAt |-> failAt, reply |-> NoReply]

----------------------------------------------------------------------------
(* SpecResources: a Dataset() and calls of add_update_resource,            *)
(* add_update_resources and set_file_to_upload in any order                 *)

NamesR == {"a", "b"}

\* single resources: every dict, Resource objects with a staged file, a
\* resource id known to the catalog, an unknown one, and a value of another type
SingleInputs ==
    UNION { {AsDict(d) : d \in ResourceData(n)} : n \in NamesR }
    \cup {AsResource([name |-> n, url |-> "u1", description |-> "d1"], "f1") : n \in NamesR}
    \cup {AsStr("rb"), AsStr("rz"), NotAResource}

ListElements ==
    { AsDict([name |-> "a", url |-> "u1", description |-> "d1"]),
      AsDict([name |-> "a", url |-> "u1", description |-> "d1", package_id |-> "idX"]),
      AsDict([name |-> "b", description |-> "d2"]) }

MaxListLen == 2

RECURSIVE SeqsUpTo(_, _)
SeqsUpTo(S, n) ==
    IF n = 0 THEN {<<>>}
    ELSE LET shorter == SeqsUpTo(S, n - 1)
         IN  shorter \cup {Append(q, x) : q \in {t \in shorter : Len(t) = n - 1}, x \in S}

InitResources ==
    /\ data = EmptyDict
    /\ data_resources = NoDataResources
    /\ old_data = NoOldData
    /\ resources = <<>>
    /\ nextOid = 1
    /\ remote = RemoteDataset(<<"b">>)
    /\ calls = <<>>
    /\ last = Op("new", "ok", FALSE, <<>>, 0)
    /\ pre = [data |-> EmptyDict, data_resources |-> NoDataResources,
              resources |-> <<>>, nextOid |-> 1, remote |-> NoRemote]
    /\ nops = 0
    /\ faults = 0
    /\ NoSearch
    /\ NoGlobalConfiguration
    /\ NoFiles

\* the outcome S of a handler of the resource list becomes the state
BecomesResources(S, op, flag, args, failAt) ==
    /\ resources' = S.resources
    /\ nextOid' = S.nextOid
    /\ calls' = S.g.calls
    /\ last' = Op(op, Outcome(S.raised), flag, args, failAt)
    /\ pre' = Snapshot
    /\ nops' = nops + 1
    /\ UNCHANGED <<data, data_resources, old_data, remote, faults>>
    /\ UNCHANGED <<searchVars, configVars, fileVars>>

AddUpdateResource(resource, ignore_datasetid, failAt) ==
    /\ nops < MaxAdds
    /\ failAt = 0 \/ resource.kind = "str"
    /\ BecomesResources(
           add_update_resource([resources |-> resources, nextOid |-> nextOid,
                                g |-> StartGateway(failAt), raised |-> FALSE],
                               resource, ignore_datasetid),
           "add_update_resource", ignore_datasetid, <<resource>>, failAt)

AddUpdateResources(rs, ignore_datasetid) ==
    /\ nops < MaxAdds
    /\ BecomesResources(
           add_update_resources([resources |-> resources, nextOid |-> nextOid,
                                 g |-> StartGateway(0), raised |-> FALSE],
                                rs, ignore_datasetid),
           "add_update_resources", ignore_datasetid, rs, 0)

\* Dataset.add_update_resources, lines 177-178: the argument is not a list
AddUpdateResourcesNotAList ==
    /\ nops < MaxAdds
    /\ calls' = <<>>
    /\ last' = Op("add_update_resources", "raised", FALSE, <<NotAResource>>, 0)
    /\ pre' = Snapshot
    /\ nops' = nops + 1
    /\ UNCHANGED <<data, data_resources, old_data, resources, nextOid, remote, faults>>
    /\ UNCHANGED <<searchVars, configVars, fileVars>>

\* the caller stages a file on a resource of the dataset (get_resources()[i])
SetFileToUpload(i, f) ==
    /\ nops < MaxAdds
    /\ i \in 1..Len(resources)
    /\ resources' = set_file_to_upload(resources, i, f)
    /\ calls' = <<>>
    /\ last' = Op("set_file_to_upload", "ok", FALSE, <<>>, 0)
    /\ pre' = Snapshot
    /\ nops' = nops + 1
    /\ UNCHANGED <<data, data_resources, old_data, nextOid, remote, faults>>
    /\ UNCHANGED <<searchVars, configVars, fileVars>>

NextResources ==
    \/ \E r \in SingleInputs, ig \in BOOLEAN, failAt \in 0..1 : AddUpdateResource(r, ig, failAt)
    \/ \E rs \in SeqsUpTo(ListElements, MaxListLen), ig \in BOOLEAN : AddUpdateResources(rs, ig)
    \/ AddUpdateResourcesNotAList
    \/ \E i \in 1..2, f \in {None, "f1"} : SetFileToUpload(i, f)

SpecResources == InitResources /\ [][NextResources]_vars

----------------------------------------------------------------------------
(* Spec: a Dataset built from initial data and a list of resources, a       *)
(* catalog that holds the dataset or not, and calls of create_in_hdx and     *)
(* update_in_hdx                                                             *)

InitialFields ==
    { [name |-> "n1", title |-> "t1"],
      [name |-> "n1"],
      [name |-> "n1", title |-> "t1", id |-> "id1"],
      [name |-> "n1", title |-> "t1", id |-> "idX"],
      [title |-> "t1", id |-> "id1"],
      [name |-> "n1", title |-> "t1", is_requestdata_type |-> "True"] }

\* a resource with a url, one with a file staged for upload, one with
\* neither, and one with a url but no description
LocalResources(n) ==
    { AsResource([name |-> n, url |-> "u1", description |-> "d1"], None),
      AsResource([name |-> n, description |-> "d1"], "f1"),
      AsResource([name |-> n, description |-> "d1"], None),
      AsResource([name |-> n, url |-> "u1"], None) }

InitialResources ==
    {<<>>}
    \cup {<<r>> : r \in LocalResources("b") \cup LocalResources("c")}
    \cup {<<r, q>> : r \in LocalResources("b"), q \in LocalResources("c")}
    \cup {<<q, r>> : r \in LocalResources("b"), q \in LocalResources("c")}

RemoteInit ==
    { NoRemote, RemoteDataset(<<>>), RemoteDataset(<<"b">>), RemoteDataset(<<"a", "b">>) }

\* the handlers' view of the state
Current(failAt) ==
    [data |-> data, dres |-> data_resources, old |-> old_data, resources |-> resources,
     nextOid |-> nextOid, g |-> StartGateway(failAt), raised |-> FALSE, loaded |-> FALSE]

\* the Dataset holds the resources of S
HoldsResources(S) == resources = S.resources /\ nextOid = S.nextOid

Init ==
    /\ \E f \in InitialFields : data = f
    /\ \E rs \in InitialResources :
          HoldsResources(add_update_resources(
                             [resources |-> <<>>, nextOid |-> 1,
                              g |-> [remote |-> NoRemote, calls |-> <<>>,
                                     failAt |-> 0, reply |-> NoReply],
                              raised |-> FALSE], rs, TRUE))
    /\ remote \in RemoteInit
    /\ data_resources = NoDataResources
    /\ old_data = NoOldData
    /\ calls = <<>>
    /\ last = Op("new", "ok", FALSE, <<>>, 0)
    /\ pre = [data |-> EmptyDict, data_resources |-> NoDataResources,
              resources |-> <<>>, nextOid |-> 1, remote |-> NoRemote]
    /\ nops = 0
    /\ faults = 0
    /\ NoSearch
    /\ NoGlobalConfiguration
    /\ NoFiles

\* the outcome S of a handler becomes the state
Becomes(S, op, flag, failAt) ==
    /\ failAt = 0 \/ (failAt <= Len(S.g.calls) /\ faults < MaxFaults)
    /\ data' = S.data
    /\ data_resources' = S.dres
    /\ old_data' = S.old
    /\ resources' = S.resources
    /\ nextOid' = S.nextOid
    /\ remote' = S.g.remote
    /\ calls' = S.g.calls
    /\ last' = Op(op, Outcome(S.raised), flag, <<>>, failAt)
    /\ pre' = Snapshot
    /\ nops' = nops + 1
    /\ faults' = IF failAt = 0 THEN faults ELSE faults + 1
    /\ UNCHANGED <<searchVars, configVars, fileVars>>

CreateInHdx(allow_no_resources, failAt) ==
    /\ nops < MaxSyncs
    /\ Becomes(create_in_hdx(Current(failAt), allow_no_resources),
               "create_in_hdx", allow_no_resources, failAt)

UpdateInHdx(update_resources, failAt) ==
    /\ nops < MaxSyncs
    /\ Becomes(update_in_hdx(Current(failAt), update_resources),
               "update_in_hdx", update_resources, failAt)

Next ==
    \/ \E allow \in BOOLEAN, failAt \in 0..MaxCalls : CreateInHdx(allow, failAt)
    \/ \E upd \in BOOLEAN, failAt \in 0..MaxCalls : UpdateInHdx(upd, failAt)

Spec == Init /\ [][Next]_vars

----------------------------------------------------------------------------
(* SpecSearch: one call of search_in_hdx(rows=total_rows, start=start)      *)
(* against a catalog that may answer each page request with any reply of    *)
(* at most the requested number of rows                                     *)

\* kwargs 'rows': none, short of a page, a page, short of two pages, two pages
RowsInputs == {0, page_size - 1, page_size, 2 * page_size - 1, 2 * page_size}

InitSearch ==
    /\ data = EmptyDict
    /\ data_resources = NoDataResources
    /\ old_data = NoOldData
    /\ resources = <<>>
    /\ nextOid = 1
    /\ remote = NoRemote
    /\ calls = <<>>
    /\ last = Op("new", "ok", FALSE, <<>>, 0)
    /\ pre = [data |-> EmptyDict, data_resources |-> NoDataResources,
              resources |-> <<>>, nextOid |-> 1, remote |-> NoRemote]
    /\ nops = 0
    /\ faults = 0
    /\ NoSearch
    /\ NoGlobalConfiguration
    /\ NoFiles

\* lines 454-458
SearchInHdx(rows, st) ==
    /\ pc = "idle"
    /\ pc' = "while"
    /\ total_rows' = rows
    /\ start' = st
    /\ all_datasets' = [isNone |-> TRUE, list |-> <<>>]
    /\ attempts' = 0
    /\ UNCHANGED <<counts, page, passlog, datasetVars, configVars, fileVars>>

\* StartPass that allows a pass after max_attempts discarded ones
StartPass_onemore ==
    /\ pc = "while"
    /\ attempts <= max_attempts /\ all_datasets.isNone
    /\ pc' = "for"
    /\ all_datasets' = [isNone |-> FALSE, list |-> <<>>]
    /\ counts' = {}
    /\ page' = 0
    /\ passlog' = <<>>
    /\ UNCHANGED <<total_rows, start, attempts, datasetVars, configVars, fileVars>>

\* lines 459-461: the loop condition holds and a pass starts
StartPass ==
    /\ pc = "while"
    /\ attempts < max_attempts /\ all_datasets.isNone
    /\ pc' = "for"
    /\ all_datasets' = [isNone |-> FALSE, list |-> <<>>]
    /\ counts' = {}
    /\ page' = 0
    /\ passlog' = <<>>
    /\ UNCHANGED <<total_rows, start, attempts, datasetVars, configVars, fileVars>>

\* lines 462-487: one iteration of the for loop, the catalog answering reply
RequestPage(reply) ==
    /\ pc = "for"
    /\ Len(reply.results) <= PageRequest(page).rows
    /\ LET request == PageRequest(page)
           count == reply.count
           no_results == Len(reply.results)
           added == reply.result /\ Truthy(count)
           break == reply.result /\ (~Truthy(count) \/ no_results < request.rows)
           exhausted == page + 1 \notin Pages(total_rows)
       IN  /\ passlog' = Append(passlog, [request |-> request, result |-> reply.result,
                                          count |-> count, no_results |-> no_results])
           /\ counts' = IF added THEN counts \cup {count} ELSE counts
           /\ all_datasets' = IF added
                              THEN [all_datasets EXCEPT !.list = @ \o WrappedAll(reply.results)]
                              ELSE all_datasets
           /\ page' = IF break \/ exhausted THEN page ELSE page + 1
           /\ pc' = IF break \/ exhausted THEN "endpass" ELSE "for"
    /\ UNCHANGED <<total_rows, start, attempts, datasetVars, configVars, fileVars>>

\* lines 488-495: the pass is kept or discarded
EndPass ==
    /\ pc = "endpass"
    /\ pc' = "while"
    /\ LET ids == [k \in DOMAIN all_datasets.list |-> all_datasets.list[k].data.id]
           discard == IF all_datasets.list # <<>> /\ Cardinality(counts) # 1
                      THEN TRUE
                      ELSE Len(ids) # Cardinality(Range(ids))
       IN  /\ all_datasets' = IF discard THEN [isNone |-> TRUE, list |-> <<>>]
                              ELSE all_datasets
           /\ attempts' = IF discard THEN attempts + 1 ELSE attempts
    /\ UNCHANGED <<total_rows, start, counts, page, passlog, datasetVars, configVars, fileVars>>

\* lines 496-497
RaiseMaximumAttempts ==
    /\ pc = "while"
    /\ ~(attempts < max_attempts /\ all_datasets.isNone)
    /\ attempts = max_attempts /\ all_datasets.isNone
    /\ pc' = "raised"
    /\ UNCHANGED <<total_rows, start, all_datasets, attempts, counts, page, passlog,
                   datasetVars, configVars, fileVars>>

\* line 498
ReturnAllDatasets ==
    /\ pc = "while"
    /\ ~(attempts < max_attempts /\ all_datasets.isNone)
    /\ ~(attempts = max_attempts /\ all_datasets.isNone)
    /\ pc' = "returned"
    /\ UNCHANGED <<total_rows, start, all_datasets, attempts, counts, page, passlog,
                   datasetVars, configVars, fileVars>>

NextSearch ==
    \/ \E rows \in RowsInputs, st \in {0, MaxStart} : SearchInHdx(rows, st)
    \/ StartPass
    \/ \E reply \in Replies : RequestPage(reply)
    \/ EndPass
    \/ RaiseMaximumAttempts
    \/ ReturnAllDatasets

SpecSearch == InitSearch /\ [][NextSearch]_vars

----------------------------------------------------------------------------
(* SpecAll: one call of get_all_datasets(limit=total_rows, offset=start)    *)
(* against a catalog that may answer each page request with any list of at  *)
(* most the requested number of datasets                                    *)

\* the dataset dicts the catalog may return: three datasets, and the first
\* of them under another name
ListedDicts ==
    { [id |-> 1, name |-> "x"], [id |-> 2, name |-> "y"], [id |-> 3, name |-> "z"],
      [id |-> 1, name |-> "w"] }

\* the results of _write_to_hdx('all', ...): lists of dataset dicts
ListedResults == UNION {[1..n -> ListedDicts] : n \in 0..page_size}

\* lines 533-538
GetAllDatasets(limit, offset) ==
    /\ pc = "idle"
    /\ pc' = "while"
    /\ total_rows' = limit
    /\ start' = offset
    /\ all_datasets' = [isNone |-> TRUE, list |-> <<>>]
    /\ attempts' = 0
    /\ UNCHANGED <<counts, page, passlog, datasetVars, configVars, fileVars>>

\* lines 539-540: the loop condition holds and a pass starts
GetAllStartPass ==
    /\ pc = "while"
    /\ attempts < max_attempts /\ all_datasets.isNone
    /\ pc' = "for"
    /\ all_datasets' = [isNone |-> FALSE, list |-> <<>>]
    /\ page' = 0
    /\ passlog' = <<>>
    /\ UNCHANGED <<total_rows, start, attempts, counts, datasetVars, configVars, fileVars>>

\* lines 541-561: one iteration of the for loop, the catalog answering result
GetAllRequestPage(result) ==
    /\ pc = "for"
    /\ Len(result) <= PageRequest(page).rows
    /\ LET request == PageRequest(page)
           no_results == Len(result)
           break == result # <<>> /\ no_results < request.rows
           exhausted == page + 1 \notin Pages(total_rows)
       IN  /\ passlog' = Append(passlog, [request |-> request, result |-> result # <<>>,
                                          count |-> NoCount, no_results |-> no_results])
           /\ all_datasets' = [all_datasets EXCEPT !.list = @ \o WrappedAll(result)]
           /\ page' = IF break \/ exhausted THEN page ELSE page + 1
           /\ pc' = IF break \/ exhausted THEN "endpass" ELSE "for"
    /\ UNCHANGED <<total_rows, start, attempts, counts, datasetVars, configVars, fileVars>>

\* lines 562-566: the pass is kept or discarded
GetAllEndPass ==
    /\ pc = "endpass"
    /\ pc' = "while"
    /\ LET names_list == [k \in DOMAIN all_datasets.list |-> all_datasets.list[k].data.name]
           discard == Len(names_list) # Cardinality(Range(names_list))
       IN  /\ all_datasets' = IF discard THEN [isNone |-> TRUE, list |-> <<>>]
                              ELSE all_datasets
           /\ attempts' = IF discard THEN attempts + 1 ELSE attempts
    /\ UNCHANGED <<total_rows, start, counts, page, passlog, datasetVars, configVars, fileVars>>

\* lines 572-573
GetAllRaiseMaximumAttempts ==
    /\ pc = "while"
    /\ ~(attempts < max_attempts /\ all_datasets.isNone)
    /\ attempts = max_attempts /\ all_datasets.isNone
    /\ pc' = "raised"
    /\ UNCHANGED <<total_rows, start, all_datasets, attempts, counts, page, passlog,
                   datasetVars, configVars, fileVars>>

\* line 574
GetAllReturn ==
    /\ pc = "while"
    /\ ~(attempts < max_attempts /\ all_datasets.isNone)
    /\ ~(attempts = max_attempts /\ all_datasets.isNone)
    /\ pc' = "returned"
    /\ UNCHANGED <<total_rows, start, all_datasets, attempts, counts, page, passlog,
                   datasetVars, configVars, fileVars>>

NextAll ==
    \/ \E limit \in RowsInputs, offset \in {0, MaxStart} : GetAllDatasets(limit, offset)
    \/ GetAllStartPass
    \/ \E result \in ListedResults : GetAllRequestPage(result)
    \/ GetAllEndPass
    \/ GetAllRaiseMaximumAttempts
    \/ GetAllReturn

SpecAll == InitSearch /\ [][NextAll]_vars

----------------------------------------------------------------------------
(* SpecResource: one Resource(data) on which the caller stages or unstages  *)
(* a file and calls check_required_fields                                   *)

OptionalKeys == {"description", "url", "tracking_summary", "package_id"}

\* the value a resource dict holds under key k
FieldValue(k, resource_type, url_type) ==
    CASE k = "name" -> "a"
      [] k = "description" -> "d1"
      [] k = "url" -> "u1"
      [] k = "tracking_summary" -> "ts"
      [] k = "package_id" -> "id1"
      [] k = "resource_type" -> resource_type
      [] k = "url_type" -> url_type

\* the keys that go with a resource_type / url_type of None (absent) or a value
TypeKeys(resource_type, url_type) ==
    (IF resource_type = None THEN {} ELSE {"resource_type"})
    \cup (IF url_type = None THEN {} ELSE {"url_type"})

\* resource dicts: a name, any of the optional keys, and a resource_type and
\* url_type that are absent, those of a link or those of an upload
ResourceDicts ==
    { [k \in {"name"} \cup K \cup TypeKeys(rt, ut) |-> FieldValue(k, rt, ut)] :
        K \in SUBSET OptionalKeys,
        rt \in {None, "api", "file.upload"},
        ut \in {None, "api", "upload"} }

InitResource ==
    /\ data = EmptyDict
    /\ data_resources = NoDataResources
    /\ old_data = NoOldData
    /\ \E d \in ResourceDicts, f \in {None, "f1"} :
          resources = set_file_to_upload(<<NewResource(1, d)>>, 1, f)
    /\ nextOid = 2
    /\ remote = NoRemote
    /\ calls = <<>>
    /\ last = Op("new", "ok", FALSE, <<>>, 0)
    /\ pre = [data |-> EmptyDict, data_resources |-> NoDataResources,
              resources |-> <<>>, nextOid |-> 1, remote |-> NoRemote]
    /\ nops = 0
    /\ faults = 0
    /\ NoSearch
    /\ NoGlobalConfiguration
    /\ NoFiles

\* the state after a method of the Resource left the resource list as rs
BecomesResource(rs, op, outcome, args) ==
    /\ resources' = rs
    /\ calls' = <<>>
    /\ last' = Op(op, outcome, FALSE, args, 0)
    /\ pre' = Snapshot
    /\ nops' = nops + 1
    /\ UNCHANGED <<data, data_resources, old_data, nextOid, remote, faults>>
    /\ UNCHANGED <<searchVars, configVars, fileVars>>

\* Resource.set_file_to_upload
ResourceSetFileToUpload(f) ==
    /\ nops < MaxChecks
    /\ BecomesResource(set_file_to_upload(resources, 1, f), "set_file_to_upload", "ok", <<>>)

\* the outcome c = [raised, res] of check_required_fields becomes the state
ResourceChecked(c, ignore_fields) ==
    BecomesResource(<<c.res>>, "check_required_fields", Outcome(c.raised), <<ignore_fields>>)

\* Resource.check_required_fields(ignore_fields)
ResourceCheck(ignore_fields) ==
    /\ nops < MaxChecks
    /\ ResourceChecked(ResourceCheckRequiredFields(resources[1], ignore_fields), ignore_fields)

NextResource ==
    \/ \E f \in {None, "f1"} : ResourceSetFileToUpload(f)
    \/ \E ignore_fields \in {{}, {"package_id"}} : ResourceCheck(ignore_fields)

SpecResource == InitResource /\ [][NextResource]_vars

----------------------------------------------------------------------------
(* SpecConfiguration: calls of Configuration.create, setup, delete and read  *)
(* and of setup_remoteckan and remoteckan() on the configuration read, in    *)
(* any order, starting with no global configuration                          *)

DefaultKwargs ==
    [hdx_config_dict |-> "", hdx_config_json |-> FALSE, hdx_config_yaml |-> FALSE,
     project_config_dict |-> FALSE, project_config_json |-> FALSE,
     project_config_yaml |-> FALSE, hdx_site |-> "test", hdx_read_only |-> FALSE]

KwargsInputs ==
    [hdx_config_dict : {"", "full", "nourl"}, hdx_config_json : BOOLEAN,
     hdx_config_yaml : BOOLEAN, project_config_dict : BOOLEAN,
     project_config_json : BOOLEAN, project_config_yaml : BOOLEAN,
     hdx_site : {"test", "prod", "feature"}, hdx_read_only : {FALSE}]

\* Configuration instances a caller passes in
ConfigurationInputs ==
    { ConfigurationInit([DefaultKwargs EXCEPT !.hdx_site = "prod"]).configuration,
      ConfigurationInit([DefaultKwargs EXCEPT !.hdx_read_only = TRUE]).configuration }

\* the arguments of create and setup: a Configuration instance, or kwargs
ConfigurationArguments ==
    {[configuration |-> NoConfiguration, kwargs |-> k] : k \in KwargsInputs}
    \cup {[configuration |-> c, kwargs |-> DefaultKwargs] : c \in ConfigurationInputs}

InitConfiguration ==
    /\ data = EmptyDict
    /\ data_resources = NoDataResources
    /\ old_data = NoOldData
    /\ resources = <<>>
    /\ nextOid = 1
    /\ remote = NoRemote
    /\ calls = <<>>
    /\ last = Op("new", "", FALSE, <<NoConfiguration, NoConfiguration, FALSE>>, 0)
    /\ pre = [data |-> EmptyDict, data_resources |-> NoDataResources,
              resources |-> <<>>, nextOid |-> 1, remote |-> NoRemote]
    /\ nops = 0
    /\ faults = 0
    /\ NoSearch
    /\ NoGlobalConfiguration
    /\ NoFiles

\* the class before a call
CurrentClass == [_configuration |-> _configuration, error |-> ""]

\* the outcome C of a class method becomes the state; the operation is logged
\* with the global configuration it found, the Configuration passed in and
\* whether building one from the kwargs raises
BecomesClass(C, op, remoteckan, a) ==
    /\ nops < MaxConfigOps
    /\ _configuration' = C._configuration
    /\ last' = Op(op, C.error, remoteckan,
                  <<_configuration, a.configuration,
                    a.configuration.isNone /\ ConfigurationInit(a.kwargs).raised>>, 0)
    /\ nops' = nops + 1
    /\ UNCHANGED <<data, data_resources, old_data, resources, nextOid, remote, calls,
                   pre, faults, searchVars, fileVars>>

Create(a, remoteckan) ==
    BecomesClass(create(CurrentClass, a.configuration, remoteckan, a.kwargs),
                 "create", remoteckan, a)

Setup(a) ==
    BecomesClass(setup(CurrentClass, a.configuration, a.kwargs), "setup", FALSE, a)

Delete ==
    BecomesClass(delete(CurrentClass), "delete", FALSE,
                 [configuration |-> NoConfiguration, kwargs |-> DefaultKwargs])

Read ==
    BecomesClass(read(CurrentClass), "read", FALSE,
                 [configuration |-> NoConfiguration, kwargs |-> DefaultKwargs])

\* Configuration.read().setup_remoteckan(remoteckan)
ReadSetupRemoteckan(remoteckan) ==
    BecomesClass(setup_remoteckan(read(CurrentClass), remoteckan),
                 "setup_remoteckan", remoteckan,
                 [configuration |-> NoConfiguration, kwargs |-> DefaultKwargs])

\* Configuration.read().remoteckan()
ReadRemoteckan ==
    BecomesClass(get_remoteckan(read(CurrentClass)), "remoteckan", FALSE,
                 [configuration |-> NoConfiguration, kwargs |-> DefaultKwargs])

NextConfiguration ==
    \/ \E a \in ConfigurationArguments, remoteckan \in BOOLEAN : Create(a, remoteckan)
    \/ \E a \in ConfigurationArguments : Setup(a)
    \/ Delete
    \/ Read
    \/ \E remoteckan \in BOOLEAN : ReadSetupRemoteckan(remoteckan)
    \/ ReadRemoteckan

SpecConfiguration == InitConfiguration /\ [][NextConfiguration]_vars

----------------------------------------------------------------------------
(* SpecFields: a Dataset with or without a maintainer and a dataset date,   *)
(* or an update frequency, on which the caller calls                        *)
(* transform_update_frequency, set_expected_update_frequency,               *)
(* set_dataset_date_from_datetime or set_maintainer                         *)

\* the texts given to transform_update_frequency: the keys and values of the
\* table, the keys in upper case, and texts the table does not have
FrequencyInputs ==
    (DOMAIN update_frequencies)
        \cup {update_frequencies[k] : k \in DOMAIN update_frequencies}
        \cup {upper(k) : k \in DOMAIN update_frequencies}
        \cup {<<>>, <<"3","1">>, <<"o","f","t","e","n">>}

\* the texts given to set_expected_update_frequency: the numeric codes, a
\* label, aliases, and texts that are not in the vocabulary
SetFrequencyInputs ==
    {k \in DOMAIN update_frequencies : IsInt(k)}
        \cup {update_frequencies[<<"3","0">>], upper(<<"w","e","e","k","l","y">>),
              <<"y","e","a","r","l","y">>}
        \cup {<<>>, <<"3","1">>, <<"+","7">>, <<"o","f","t","e","n">>}

\* the datetimes given to set_dataset_date_from_datetime
DatetimeInputs ==
    {Datetime(y, m, d, 13) : y \in {999, 2017}, m \in {1, 12}, d \in {1, 31}}

\* the arguments given to set_maintainer
MaintainerInputs ==
    {Maintainer(t, i, n) : t \in {"dict", "User"},
                           i \in {None, "7e1b1a0c-uuid", "ann"},
                           n \in {None, "ann", "bob", "eve"}}
        \cup {Maintainer("str", i, None) : i \in {"c2d4e6f8-uuid", "ann"}}
        \cup {Maintainer("int", None, None)}

\* the metadata of the Dataset at the start
FieldsInputs ==
    {merge_two_dictionaries(m, d) :
        m \in {EmptyDict, [k \in {"maintainer"} |-> "c2d4e6f8-uuid"]},
        d \in {EmptyDict,
               [k \in {"dataset_date"} |->
                   strftime(Datetime(2016, 2, 3, 0), TRUE) \o <<"-">>
                       \o strftime(Datetime(2016, 4, 5, 0), TRUE)]}}
        \cup {[k \in {"data_update_frequency"} |-> <<"3","0">>]}

InitFields ==
    /\ data \in FieldsInputs
    /\ data_resources = NoDataResources
    /\ old_data = NoOldData
    /\ resources = <<>>
    /\ nextOid = 1
    /\ remote = NoRemote
    /\ calls = <<>>
    /\ last = Op("new", "", FALSE, <<>>, 0)
    /\ pre = [data |-> EmptyDict, data_resources |-> NoDataResources,
              resources |-> <<>>, nextOid |-> 1, remote |-> NoRemote]
    /\ nops = 0
    /\ faults = 0
    /\ NoSearch
    /\ NoGlobalConfiguration
    /\ NoFiles

\* the state after a call that left the metadata as d and made the lookups
BecomesFields(d, lookups, op, outcome, flag, args) ==
    /\ nops < MaxFieldOps
    /\ data' = d
    /\ calls' = lookups
    /\ last' = Op(op, outcome, flag, args, 0)
    /\ pre' = Snapshot
    /\ nops' = nops + 1
    /\ UNCHANGED <<data_resources, old_data, resources, nextOid, remote, faults>>
    /\ UNCHANGED <<searchVars, configVars, fileVars>>

\* the result r of transform_update_frequency(frequency) and, unless it is
\* None, the result of transform_update_frequency(r)
Transformed(frequency, r) ==
    BecomesFields(data, <<>>, "transform_update_frequency", "", FALSE,
                  <<frequency, r,
                    IF r = NoFrequency THEN NoFrequency
                    ELSE transform_update_frequency(r)>>)

\* Dataset.transform_update_frequency(frequency)
TransformUpdateFrequency(frequency) ==
    Transformed(frequency, transform_update_frequency(frequency))

\* Dataset.set_dataset_date_from_datetime(dataset_date, dataset_end_date) on a
\* build whose strftime zero-fills the year (padded) or does not
SetDatasetDateFromDatetime(dataset_date, dataset_end_date, padded) ==
    BecomesFields(set_dataset_date_from_datetime(data, dataset_date,
                                                 dataset_end_date, padded),
                  <<>>, "set_dataset_date_from_datetime", "", padded,
                  <<dataset_date, dataset_end_date>>)

\* the outcome m = [raised, data, lookups] of set_maintainer becomes the state
MaintainerSet(m, maintainer) ==
    BecomesFields(m.data, m.lookups, "set_maintainer", m.raised, FALSE, <<maintainer>>)

\* Dataset.set_maintainer(maintainer)
SetMaintainer(maintainer) == MaintainerSet(set_maintainer(data, maintainer), maintainer)

\* the outcome f = [raised, data] of set_expected_update_frequency becomes
\* the state; the call is followed by get_expected_update_frequency()
FrequencySet(f, update_frequency) ==
    BecomesFields(f.data, <<>>, "set_expected_update_frequency", f.raised, FALSE,
                  <<update_frequency, get_expected_update_frequency(f.data)>>)

\* Dataset.set_expected_update_frequency(update_frequency)
SetExpectedUpdateFrequency(update_frequency) ==
    FrequencySet(set_expected_update_frequency(data, update_frequency),
                 update_frequency)

NextFields ==
    \/ \E frequency \in FrequencyInputs : TransformUpdateFrequency(frequency)
    \/ \E dataset_date \in DatetimeInputs,
          dataset_end_date \in DatetimeInputs \cup {NoDatetime},
          padded \in BOOLEAN :
            SetDatasetDateFromDatetime(dataset_date, dataset_end_date, padded)
    \/ \E maintainer \in MaintainerInputs : SetMaintainer(maintainer)
    \/ \E update_frequency \in SetFrequencyInputs :
          SetExpectedUpdateFrequency(update_frequency)

SpecFields == InitFields /\ [][NextFields]_vars

----------------------------------------------------------------------------
(* SpecDatastore: one Resource of the catalog, two files of the caller, and *)
(* calls of create_datastore with or without a path, any step of which may  *)
(* fail                                                                     *)

\* the resource: its url is that of a csv file, of a zip archive, or missing
DatastoreResources ==
    {[name |-> "a", id |-> "ra", url |-> "u.csv"],
     [name |-> "a", id |-> "ra", url |-> "u.zip"],
     [name |-> "a", id |-> "ra"]}

\* the files of the caller
GivenFiles == {"given.csv", "given.zip"}

\* the step of create_datastore that fails
DatastoreFaults ==
    {"none", "download", "zipfile", "extract", "extract_partial", "open",
     "datastore_create", "read", "read_later", "datastore_upsert"}

\* primary_key and delete_first
DeleteFirstInputs == {<<None, 0>>, <<None, 1>>, <<None, 2>>, <<"k", 2>>, <<None, 3>>}

InitDatastore ==
    /\ data = EmptyDict
    /\ data_resources = NoDataResources
    /\ old_data = NoOldData
    /\ \E d \in DatastoreResources : resources = <<NewResource(1, d)>>
    /\ nextOid = 2
    /\ remote = NoRemote
    /\ calls = <<>>
    /\ last = Op("new", "", FALSE, <<>>, 0)
    /\ pre = [data |-> EmptyDict, data_resources |-> NoDataResources,
              resources |-> <<>>, nextOid |-> 1, remote |-> NoRemote]
    /\ nops = 0
    /\ faults = 0
    /\ NoSearch
    /\ NoGlobalConfiguration
    /\ files = GivenFiles

\* create_datastore starts with the files that exist and has made none
StartDatastore ==
    [files |-> files, created |-> {}, calls |-> <<>>, raised |-> FALSE,
     path |-> None, zip_path |-> None, delete_after_download |-> FALSE,
     obtained |-> FALSE]

\* the outcome D of create_datastore becomes the state
DatastoreCreated(D, path, fault) ==
    /\ files' = D.files
    /\ calls' = D.calls
    /\ last' = Op("create_datastore", IF D.raised THEN "HDXError" ELSE "",
                  D.obtained, <<path, fault, D.created>>, 0)
    /\ pre' = Snapshot
    /\ nops' = nops + 1
    /\ UNCHANGED <<data, data_resources, old_data, resources, nextOid, remote, faults>>
    /\ UNCHANGED <<searchVars, configVars>>

\* Resource.create_datastore(None, primary_key, delete_first, path)
CreateDatastore(primary_key, delete_first, path, chunks, fault) ==
    /\ nops < MaxDatastoreOps
    /\ DatastoreCreated(create_datastore(StartDatastore, resources[1], primary_key,
                                         delete_first, path, chunks, fault),
                        path, fault)

NextDatastore ==
    \E k \in DeleteFirstInputs, path \in GivenFiles \cup {None}, chunks \in {0, 2},
       fault \in DatastoreFaults :
        CreateDatastore(k[1], k[2], path, chunks, fault)

SpecDatastore == InitDatastore /\ [][NextDatastore]_vars

----------------------------------------------------------------------------
(* Claims about the resource list *)

\* the Resource a call of add_update_resource works with: [isResource, data]
Incoming(arg, r) ==
    CASE arg.kind = "str" ->
            LET i == FirstDict(r.resources, "id", arg.data["id"])
            IN  IF i > 0 THEN [isResource |-> TRUE, data |-> r.resources[i]]
                ELSE [isResource |-> FALSE, data |-> EmptyDict]
      [] arg.kind \in {"dict", "Resource"} -> [isResource |-> TRUE, data |-> arg.data]
      [] OTHER -> [isResource |-> FALSE, data |-> EmptyDict]

\* the last operation was a successful add_update_resource of a resource
\* whose name an existing resource already had
SameNameAdded ==
    /\ last.op = "add_update_resource"
    /\ last.outcome = "ok"
    /\ Incoming(last.args[1], pre.remote).isResource
    /\ Incoming(last.args[1], pre.remote).data["name"] \in NamesOf(pre.resources)

SameNameIndex == FirstNamed(pre.resources, Incoming(last.args[1], pre.remote).data["name"])

\* C7: after any sequence of add_update_resource / add_update_resources calls
\* the names in the resources list are pairwise distinct; adding a resource
\* whose name an existing resource has leaves the length of the list
\* unchanged, keeps every Resource object at its position and overwrites the
\* fields of the existing resource by those of the new one.
C7_NamesDistinct ==
    /\ \A i, j \in 1..Len(resources) :
          resources[i].data["name"] = resources[j].data["name"] => i = j
    /\ SameNameAdded =>
          LET new == Incoming(last.args[1], pre.remote).data
          IN  /\ Len(resources) = Len(pre.resources)
              /\ \A j \in 1..Len(resources) : resources[j].oid = pre.resources[j].oid
              /\ \A j \in 1..Len(resources) :
                    j # SameNameIndex => resources[j] = pre.resources[j]
              /\ \A k \in DOMAIN new : resources[SameNameIndex].data[k] = new[k]

C7_Witness ==
    /\ SameNameAdded
    /\ Len(resources) = 2
    /\ resources[SameNameIndex].data # pre.resources[SameNameIndex].data

\* C8: adding a resource whose name equals that of an existing resource with a
\* pending file_to_upload leaves that pending upload set to the same file.
C8_PendingUploadKept ==
    (SameNameAdded /\ pre.resources[SameNameIndex].file_to_upload # None)
        => resources[SameNameIndex].file_to_upload
              = pre.resources[SameNameIndex].file_to_upload

\* a resource that carries a package_id
HasDatasetId(arg) == Incoming(arg, pre.remote).isResource
                     /\ Has(Incoming(arg, pre.remote).data, "package_id")

\* position of the first resource of the list given to add_update_resources
\* that carries a package_id, 0 if none
FirstWithDatasetId(args) ==
    IF \E i \in 1..Len(args) : HasDatasetId(args[i])
    THEN CHOOSE i \in 1..Len(args) :
            HasDatasetId(args[i]) /\ \A j \in 1..(i-1) : ~HasDatasetId(args[j])
    ELSE 0

\* C9: add_update_resource of a resource with a package_id and
\* ignore_datasetid=False raises and leaves the resources list unchanged;
\* add_update_resources with such a resource at position i raises, and the
\* list is then what applying only the resources before position i gives.
C9_DatasetIdRejected ==
    /\ (last.op = "add_update_resource" /\ ~last.flag /\ HasDatasetId(last.args[1]))
          => last.outcome = "raised" /\ resources = pre.resources
    /\ (last.op = "add_update_resources" /\ ~last.flag /\ FirstWithDatasetId(last.args) > 0)
          => LET i == FirstWithDatasetId(last.args)
                 before == add_update_resources(
                              [resources |-> pre.resources, nextOid |-> pre.nextOid,
                               g |-> [remote |-> pre.remote, calls |-> <<>>, failAt |-> 0,
                                      reply |-> NoReply],
                               raised |-> FALSE],
                              SubSeq(last.args, 1, i - 1), FALSE)
             IN  /\ last.outcome = "raised"
                 /\ resources = before.resources
                 /\ Len(resources) <= Len(pre.resources) + (i - 1)

C9_Witness ==
    /\ last.op = "add_update_resources"
    /\ ~last.flag
    /\ FirstWithDatasetId(last.args) = 2
    /\ last.outcome = "raised"
    /\ resources # pre.resources

----------------------------------------------------------------------------
(* Claims about create_in_hdx and update_in_hdx *)

Sync == last.op \in {"create_in_hdx", "update_in_hdx"}

\* positions in the call log of the calls of the given actions
Positions(actions) == {i \in 1..Len(calls) : calls[i].action \in actions}

SavePositions == Positions({"package_create", "package_update"})
UploadPositions == Positions({"resource_update"})
HxlPositions == Positions({"package_hxl_update"})

\* the existence probe loaded a remote copy / ended without finding one
ProbeFound == \E i \in Positions({"package_show"}) : calls[i].status = "ok"
ProbeNotFound ==
    /\ Positions({"package_show"}) # {}
    /\ \A i \in Positions({"package_show"}) : calls[i].status = "notfound"

\* C1: in every execution of create_in_hdx or update_in_hdx the dataset save
\* call (package_create or package_update) precedes every deferred
\* resource_update call, and every resource_update call precedes the
\* package_hxl_update call.
C1_CallOrder ==
    Sync =>
        /\ \A u \in UploadPositions : \E s \in SavePositions : s < u
        /\ \A u \in UploadPositions, s \in SavePositions : s < u
        /\ \A h \in HxlPositions, u \in UploadPositions : u < h
        /\ \A h \in HxlPositions, s \in SavePositions : s < h

C1_Witness ==
    /\ Sync
    /\ last.outcome = "ok"
    /\ Cardinality(UploadPositions) = 2
    /\ HxlPositions # {}

\* C2: every create_in_hdx or update_in_hdx call that returns without raising
\* has issued exactly one package_hxl_update call, as its last gateway call,
\* also when create_in_hdx finds the dataset and takes the update-merge branch.
C2_HxlUpdateLast ==
    (Sync /\ last.outcome = "ok") =>
        /\ Cardinality(HxlPositions) = 1
        /\ calls[Len(calls)].action = "package_hxl_update"

\* the Dataset as create_in_hdx / update_in_hdx found it
PreState ==
    [data |-> pre.data, dres |-> pre.data_resources, old |-> NoOldData,
     resources |-> pre.resources, nextOid |-> pre.nextOid,
     g |-> [remote |-> pre.remote, calls |-> <<>>, failAt |-> 0, reply |-> NoReply],
     raised |-> FALSE, loaded |-> FALSE]

\* the dataset and each of its resources pass validation
PassesValidation ==
    /\ ~check_required_fields(PreState, last.flag).raised
    /\ ~CheckResources(pre.resources, 1, {"package_id"}).raised

\* C3: a create_in_hdx call that passes validation issues exactly one dataset
\* save call: package_update if the existence probe loaded a remote copy,
\* package_create if no probe loaded one; never both, and never
\* package_create for a dataset the probe found.
C3_OneSaveCall ==
    (last.op = "create_in_hdx" /\ PassesValidation) =>
        /\ Cardinality(SavePositions) <= 1
        /\ ProbeFound =>
              /\ Cardinality(Positions({"package_update"})) = 1
              /\ Positions({"package_create"}) = {}
        /\ ProbeNotFound =>
              /\ Cardinality(Positions({"package_create"})) = 1
              /\ Positions({"package_update"}) = {}

C3_Witness ==
    /\ last.op = "create_in_hdx"
    /\ PassesValidation
    /\ ProbeFound
    /\ Cardinality(Positions({"package_show"})) = 2
    /\ Positions({"package_update"}) # {}

\* the last operation ran the update-merge with update_resources = True
UpdateMergeWithResources ==
    /\ ProbeFound
    /\ \/ last.op = "create_in_hdx"
       \/ last.op = "update_in_hdx" /\ last.flag

UpdateMerge == Sync /\ ProbeFound

RemoteNames == DictNames(pre.remote.resources)
LocalNames == NamesOf(pre.resources)

\* C4: for update-merge with update_resources=True, remote resource names R
\* and local resource names L, the resources array of the package_update
\* call contains exactly the names R \cup L, each once, and exactly one
\* package_update call is issued; no remote resource is dropped.
C4_ResourceNamesUnion ==
    UpdateMergeWithResources =>
        /\ Cardinality(Positions({"package_update"})) <= 1
        /\ last.outcome = "ok" => Cardinality(Positions({"package_update"})) = 1
        /\ \A p \in Positions({"package_update"}) :
              /\ DictNames(calls[p].res) = RemoteNames \cup LocalNames
              /\ Len(calls[p].res) = Cardinality(RemoteNames \cup LocalNames)

C4_Witness ==
    /\ UpdateMergeWithResources
    /\ last.outcome = "ok"
    /\ RemoteNames = {"a", "b"}
    /\ LocalNames = {"b", "c"}
    /\ \E p \in Positions({"package_update"}) : DictNames(calls[p].res) = {"a", "b", "c"}

\* the local resources as they enter the merge: create_in_hdx has validated them
LocalAtMerge ==
    IF last.op = "create_in_hdx" THEN check_required_fields(PreState, last.flag).resources
    ELSE pre.resources

\* the resource named n: as sent by the call at position p, the local one, the remote one
Sent(p, n) == calls[p].res[FirstDict(calls[p].res, "name", n)]
Local(n) == LocalAtMerge[FirstNamed(LocalAtMerge, n)]
Remote(n) == pre.remote.resources[FirstDict(pre.remote.resources, "name", n)]

\* C5 as stated: for update-merge with update_resources=True and a resource
\* name present both remotely and locally, the resource sent in
\* package_update has for every field the local value if the local resource
\* sets it, otherwise the remote value.
C5_LocalOverRemote ==
    UpdateMergeWithResources =>
        \A p \in Positions({"package_update"}) :
            \A n \in RemoteNames \cap LocalNames :
                /\ \A f \in DOMAIN Local(n).data :
                      Has(Sent(p, n), f) /\ Sent(p, n)[f] = Local(n).data[f]
                /\ \A f \in (DOMAIN Remote(n)) \ (DOMAIN Local(n).data) :
                      Has(Sent(p, n), f) /\ Sent(p, n)[f] = Remote(n)[f]

\* C5 amended: as C5, except that tracking_summary is not sent for a resource
\* whose local copy has a file to upload.
C5_LocalOverRemoteAmended ==
    UpdateMergeWithResources =>
        \A p \in Positions({"package_update"}) :
            \A n \in RemoteNames \cap LocalNames :
                /\ \A f \in DOMAIN Local(n).data :
                      (f = "tracking_summary" /\ Local(n).file_to_upload # None)
                      \/ (Has(Sent(p, n), f) /\ Sent(p, n)[f] = Local(n).data[f])
                /\ \A f \in (DOMAIN Remote(n)) \ (DOMAIN Local(n).data) :
                      IF f = "tracking_summary" /\ Local(n).file_to_upload # None
                      THEN ~Has(Sent(p, n), f)
                      ELSE Has(Sent(p, n), f) /\ Sent(p, n)[f] = Remote(n)[f]

C5_Witness ==
    /\ UpdateMergeWithResources
    /\ last.outcome = "ok"
    /\ \E p \in Positions({"package_update"}) :
          /\ "b" \in RemoteNames \cap LocalNames
          /\ Sent(p, "b")["description"] = "d1"
          /\ Remote("b")["description"] = "d0"
          /\ Sent(p, "b")["id"] = "rb"
          /\ ~Has(Local("b").data, "id")

\* C6: for update-merge the dataset-level payload of package_update has, for
\* every field other than resources, the caller's value if the caller's data
\* set it before the call, otherwise the remote value; its resources key is
\* never a carried-over raw field: it is there exactly when the managed
\* resource list is not empty and lists the resources of that list.
C6_DatasetFieldsMerged ==
    UpdateMerge =>
        \A p \in Positions({"package_update"}) :
            /\ DOMAIN calls[p].fields = (DOMAIN pre.data) \cup (DOMAIN pre.remote.fields)
            /\ \A k \in DOMAIN pre.data : calls[p].fields[k] = pre.data[k]
            /\ \A k \in (DOMAIN pre.remote.fields) \ (DOMAIN pre.data) :
                  calls[p].fields[k] = pre.remote.fields[k]
            /\ calls[p].hasRes = (resources # <<>>)
            /\ Len(calls[p].res) = Len(resources)
            /\ \A i \in 1..Len(resources) : calls[p].res[i]["name"] = resources[i].data["name"]

C6_Witness ==
    /\ UpdateMerge
    /\ last.outcome = "ok"
    /\ Has(pre.data, "title")
    /\ pre.data["title"] = "t1"
    /\ ~Has(pre.data, "id")
    /\ \E p \in Positions({"package_update"}) :
          calls[p].fields["title"] = "t1" /\ calls[p].fields["id"] = "id1"

----------------------------------------------------------------------------
(* Claims about search_in_hdx *)

\* the pages of the current pass that reported a total-match count
Reported == {k \in DOMAIN passlog : passlog[k].result /\ passlog[k].count # NoCount}

ReturnedIds == [k \in DOMAIN all_datasets.list |-> all_datasets.list[k].data.id]

\* C10: whenever search_in_hdx returns a list, every page of the pass that
\* built it reported the same total-match count and the ids of the datasets
\* of the list are pairwise distinct
C10_ConsistentPass ==
    pc = "returned" =>
        /\ ~all_datasets.isNone
        /\ \A j, k \in Reported : passlog[j].count = passlog[k].count
        /\ \A j, k \in DOMAIN ReturnedIds : j # k => ReturnedIds[j] # ReturnedIds[k]

\* the pass that just ended is consistent: the pages that reported a count
\* reported the same one and the ids collected are pairwise distinct
ConsistentPass ==
    /\ \A j, k \in Reported : passlog[j].count = passlog[k].count
    /\ \A j, k \in DOMAIN ReturnedIds : j # k => ReturnedIds[j] # ReturnedIds[k]

\* C11: search_in_hdx runs at most max_attempts passes; it raises exactly
\* when max_attempts passes were discarded, and a consistent pass is kept and
\* returned without another pass being started
C11_AtMostFivePasses ==
    /\ [](/\ attempts <= max_attempts
          /\ pc \in {"for", "endpass"} => attempts < max_attempts
          /\ pc = "raised" => attempts = max_attempts /\ all_datasets.isNone
          /\ pc = "returned" => attempts < max_attempts /\ ~all_datasets.isNone)
    /\ [][/\ pc = "endpass" /\ ConsistentPass =>
                all_datasets' = all_datasets /\ attempts' = attempts
          /\ pc = "endpass" /\ attempts' > attempts => all_datasets'.isNone
          /\ pc = "while" /\ ~all_datasets.isNone =>
                pc' = "returned" /\ all_datasets' = all_datasets
          /\ pc = "while" /\ all_datasets.isNone /\ attempts = max_attempts =>
                pc' = "raised"]_vars

C11_Witness == pc = "raised" /\ attempts = max_attempts /\ Len(passlog) > 0

\* two pages of the pass that just ended reported different counts
CountsDiffer == \E j, k \in Reported : passlog[j].count # passlog[k].count

\* C12: when two pages of a pass reported different total-match counts, the
\* datasets of the pass are discarded, and the pass that follows starts again
\* at page 0, at the start offset of the call
C12_MismatchDiscarded ==
    [][/\ pc = "endpass" /\ CountsDiffer =>
             all_datasets'.isNone /\ attempts' = attempts + 1
       /\ pc = "while" /\ pc' = "for" =>
             /\ page' = 0 /\ passlog' = <<>> /\ all_datasets'.list = <<>>
             /\ start' = start /\ total_rows' = total_rows
       /\ pc = "for" /\ passlog = <<>> =>
             passlog'[1].request.start = start]_vars

----------------------------------------------------------------------------
(* Claims about get_all_datasets *)

\* the rows requested by the first k page requests of the current pass
RECURSIVE RowsRequested(_)
RowsRequested(k) == IF k = 0 THEN 0 ELSE RowsRequested(k - 1) + passlog[k].request.rows

\* the page requests of the current pass that were followed by another one
Followed == 1..(Len(passlog) - 1)

\* C13: in get_all_datasets no page request follows, in the same pass, a page
\* that returned fewer rows than requested (zero rows included) or with which
\* the requested total was reached
C13_GetAllStopsAtShortPage ==
    \A k \in Followed :
        /\ passlog[k].no_results >= passlog[k].request.rows
        /\ RowsRequested(k) < total_rows

----------------------------------------------------------------------------
(* Claims about the page requests of search_in_hdx *)

\* C14: in search_in_hdx no package_search request follows, in the same
\* pass, a page that returned fewer rows than requested or with which the
\* requested total (rows) was reached
C14_SearchStopsAtShortPage ==
    \A k \in DOMAIN passlog :
        k < Len(passlog) =>
            /\ ~(passlog[k].no_results < passlog[k].request.rows)
            /\ ~(RowsRequested(k) >= total_rows)

----------------------------------------------------------------------------
(* Claims about the consistency of get_all_datasets *)

\* the ids of the datasets collected by the current pass, in order
CollectedIds == [k \in DOMAIN all_datasets.list |-> all_datasets.list[k].data.id]

\* two of the datasets collected by the current pass have the same id
DuplicateIds == \E j, k \in DOMAIN CollectedIds : j # k /\ CollectedIds[j] = CollectedIds[k]

\* C15: get_all_datasets discards a pass whose datasets contain a duplicate
\* identifier and walks again from the original offset; it runs at most
\* max_attempts passes, raises only after max_attempts discarded passes, and a
\* list it returns has no duplicate dataset identifiers
C15_GetAllConsistent ==
    /\ [](/\ attempts <= max_attempts
          /\ pc \in {"for", "endpass"} => attempts < max_attempts
          /\ pc = "raised" => attempts = max_attempts /\ all_datasets.isNone
          /\ pc = "returned" => ~all_datasets.isNone /\ ~DuplicateIds)
    /\ [][/\ pc = "endpass" /\ DuplicateIds =>
                all_datasets'.isNone /\ attempts' = attempts + 1
          /\ pc = "while" /\ pc' = "for" =>
                /\ page' = 0 /\ all_datasets'.list = <<>>
                /\ start' = start /\ total_rows' = total_rows
          /\ pc = "for" /\ passlog = <<>> =>
                passlog'[1].request.start = start]_vars

----------------------------------------------------------------------------
(* Claims about validation *)

\* create_in_hdx was called on a dataset that is not requestable, has every
\* required dataset field and holds no resource
CreateWithoutResources ==
    /\ last.op = "create_in_hdx"
    /\ ~is_requestable(pre.data)
    /\ _check_required_fields(pre.data, "dataset", {})
    /\ pre.resources = <<>>

\* C16: create_in_hdx on a non-requestable dataset with no resources and
\* allow_no_resources=False raises before any gateway call is issued; with
\* allow_no_resources=True the empty resource list raises nothing and the
\* call goes on to the existence probe
C16_NoResourcesRaises ==
    /\ (/\ last.op = "create_in_hdx" /\ ~is_requestable(pre.data)
        /\ pre.resources = <<>> /\ ~last.flag) =>
            last.outcome = "raised" /\ calls = <<>> /\ remote = pre.remote
    /\ (CreateWithoutResources /\ last.flag) =>
            /\ calls # <<>>
            /\ calls[1].action = "package_show"
            /\ last.failAt = 0 /\ last.outcome = "raised" =>
                  \E i \in DOMAIN calls : calls[i].status # "ok"

C16_Witness ==
    /\ CreateWithoutResources /\ ~last.flag
    /\ last.outcome = "raised" /\ calls = <<>>

----------------------------------------------------------------------------
(* Claims about Resource.check_required_fields *)

\* check_required_fields returned without raising
Checked == last.op = "check_required_fields" /\ last.outcome = "ok"

\* the resource before and after the call
Before == pre.resources[1]
After == resources[1]

\* the value under key after the call is the one it had, or the default
KeptOrDefault(key, default) ==
    /\ Has(After.data, key)
    /\ After.data[key] = IF Has(Before.data, key) THEN Before.data[key] ELSE default

\* C17 as stated: after check_required_fields succeeds on a resource with a
\* pending file, data has resource_type 'file.upload', url_type 'upload', a
\* url and no tracking_summary, whatever the two types were before; after it
\* succeeds on a resource with a url only (no types, no pending file), both
\* types are 'api'
C17_TypesAfterCheck ==
    Checked =>
        /\ Before.file_to_upload # None =>
              /\ Has(After.data, "resource_type") /\ After.data["resource_type"] = "file.upload"
              /\ Has(After.data, "url_type") /\ After.data["url_type"] = "upload"
              /\ Has(After.data, "url")
              /\ ~Has(After.data, "tracking_summary")
        /\ (/\ Before.file_to_upload = None
            /\ ~Has(Before.data, "resource_type") /\ ~Has(Before.data, "url_type")) =>
              /\ Has(After.data, "resource_type") /\ After.data["resource_type"] = "api"
              /\ Has(After.data, "url_type") /\ After.data["url_type"] = "api"

\* C17 amended: after check_required_fields succeeds, a resource_type and a
\* url_type the resource had before are kept, and one that was absent is
\* 'file.upload' / 'upload' with a pending file and 'api' / 'api' without;
\* with a pending file data has a url and no tracking_summary, and nothing
\* else in data changes
C17_TypesAfterCheckAmended ==
    Checked =>
        /\ After.file_to_upload = Before.file_to_upload
        /\ Before.file_to_upload # None =>
              /\ KeptOrDefault("resource_type", "file.upload")
              /\ KeptOrDefault("url_type", "upload")
              /\ KeptOrDefault("url", "ignore")
              /\ ~Has(After.data, "tracking_summary")
        /\ Before.file_to_upload = None =>
              /\ KeptOrDefault("resource_type", "api")
              /\ KeptOrDefault("url_type", "api")
              /\ Has(Before.data, "url")
              /\ Has(After.data, "tracking_summary") = Has(Before.data, "tracking_summary")
        /\ \A k \in DOMAIN Before.data \ {"tracking_summary"} :
              Has(After.data, k) /\ After.data[k] = Before.data[k]

C17_Witness ==
    /\ Checked
    /\ Before.file_to_upload # None
    /\ Has(Before.data, "resource_type") /\ Before.data["resource_type"] = "api"
    /\ Has(Before.data, "tracking_summary")
    /\ ~Has(Before.data, "url_type")
    /\ After.data["resource_type"] = "api" /\ After.data["url_type"] = "upload"

----------------------------------------------------------------------------
(* Claims about the state a sync leaves behind *)

\* C18: in every state the caller can observe (after construction and after
\* create_in_hdx or update_in_hdx returned without raising) data has no
\* 'resources' key: the resources are held in the resources list only
C18_NoResourcesKey ==
    last.outcome = "ok" => ~data_resources.present

\* the names of the resources whose deferred resource_update went through
UploadedNames ==
    {calls[u].fields["name"] : u \in {p \in UploadPositions : calls[p].status = "ok"}}

\* C19: after create_in_hdx or update_in_hdx returned without raising, no
\* resource of the dataset whose file was uploaded by a deferred
\* resource_update still has a pending file_to_upload
C19_UploadCleared ==
    (Sync /\ last.outcome = "ok") =>
        \A i \in DOMAIN resources :
            resources[i].data["name"] \in UploadedNames =>
                resources[i].file_to_upload = None

----------------------------------------------------------------------------
(* Claims about repeated updates *)

\* the data and the staged file of each resource of a list, in order
Contents(rs) == [i \in DOMAIN rs |-> [data |-> rs[i].data, file_to_upload |-> rs[i].file_to_upload]]

\* what the package_update calls of a call log sent
UpdatePayloads(log) ==
    SelectSeq([i \in DOMAIN log |->
                  [action |-> log[i].action, fields |-> log[i].fields,
                   hasRes |-> log[i].hasRes, res |-> log[i].res]],
              LAMBDA c : c.action = "package_update")

\* the run S2 of update_in_hdx ends as the run that led to this state did
SameAsFirstRun(S2) ==
    /\ ~S2.raised
    /\ S2.data = data
    /\ Contents(S2.resources) = Contents(resources)
    /\ UpdatePayloads(S2.g.calls) = UpdatePayloads(calls)

\* update_in_hdx returned without raising, no call having been made to fail
Updated == last.op = "update_in_hdx" /\ last.outcome = "ok" /\ last.failAt = 0

\* the catalog echoed the update: it holds what package_update sent
Echoed ==
    /\ Len(UpdatePayloads(calls)) = 1
    /\ remote.fields = UpdatePayloads(calls)[1].fields
    /\ remote.resources = UpdatePayloads(calls)[1].res

\* C20: when update_in_hdx returned without raising against a catalog that
\* echoes what it is sent, update_in_hdx run once more on the same Dataset,
\* with the same argument and nothing else having touched the catalog, ends
\* with the same data and the same resources and sends the same
\* package_update payload
C20_MergeIdempotent ==
    (Updated /\ Echoed) => SameAsFirstRun(update_in_hdx(Current(0), last.flag))

C20_Witness ==
    /\ Updated /\ Echoed /\ last.flag
    /\ remote # pre.remote
    /\ Len(resources) = 2
    /\ Contents(resources) # Contents(pre.resources)
    /\ SameAsFirstRun(update_in_hdx(Current(0), last.flag))

----------------------------------------------------------------------------
(* Claims about the resources array *)

\* the resources array of the catalog's copy that the probe loaded
LoadedArray == pre.remote.resources

----------------------------------------------------------------------------
(* Claims about the deferred uploads *)

\* the resource_update calls made for the resource named n
UploadsOf(n) == {u \in UploadPositions : calls[u].fields["name"] = n}

\* the last operation returned from the create branch of create_in_hdx or
\* from update_in_hdx with update_resources=True
CreatedOrUpdatedWithResources ==
    /\ last.outcome = "ok"
    /\ \/ last.op = "create_in_hdx" /\ Positions({"package_create"}) # {}
       \/ last.op = "update_in_hdx" /\ last.flag

\* C22: in the create branch of create_in_hdx and in update_in_hdx with
\* update_resources=True, a local resource that had a file_to_upload before
\* the call gets exactly one resource_update call, after the dataset save;
\* a resource without one gets none; a dataset with one url-only resource
\* and no remote match is created by one package_create carrying one
\* resource, with no resource_update
C22_OneUploadPerFile ==
    CreatedOrUpdatedWithResources =>
        /\ \A i \in DOMAIN pre.resources :
              Cardinality(UploadsOf(pre.resources[i].data["name"])) =
                  IF pre.resources[i].file_to_upload # None THEN 1 ELSE 0
        /\ \A u \in UploadPositions :
              /\ calls[u].fields["name"] \in LocalNames
              /\ calls[u].file # None
              /\ \E s \in SavePositions : s < u /\ calls[s].status = "ok"
        /\ (/\ last.op = "create_in_hdx" /\ Len(pre.resources) = 1
            /\ pre.resources[1].file_to_upload = None) =>
              /\ Cardinality(Positions({"package_create"})) = 1
              /\ \A p \in Positions({"package_create"}) : Len(calls[p].res) = 1
              /\ UploadPositions = {}

C22_Witness ==
    /\ CreatedOrUpdatedWithResources
    /\ last.op = "update_in_hdx"
    /\ Len(pre.resources) = 2
    /\ pre.resources[1].file_to_upload # None
    /\ pre.resources[2].file_to_upload = None
    /\ Cardinality(UploadPositions) = 1

\* the catalog's resource named n, as the dataset save stored and returned it
Stored(n) == remote.resources[FirstDict(remote.resources, "name", n)]

\* C23: every resource_update call carries the id and the package_id that the
\* dataset save returned for the resource of its name, no resource_update is
\* sent for a resource without an id, and once the uploads are done the
\* element of the returned resources array of that name equals the
\* resource's resulting representation
C23_UploadCarriesServerId ==
    Sync =>
        /\ \A u \in UploadPositions :
              /\ Has(calls[u].fields, "id") /\ Has(calls[u].fields, "package_id")
              /\ FirstDict(remote.resources, "name", calls[u].fields["name"]) > 0
              /\ calls[u].fields["id"] = Stored(calls[u].fields["name"])["id"]
              /\ calls[u].fields["package_id"] = remote.fields["id"]
        /\ (last.outcome = "ok" /\ data_resources.present) =>
              \A i \in DOMAIN resources :
                  resources[i].data["name"] \in UploadedNames =>
                      /\ FirstDict(data_resources.list, "name", resources[i].data["name"]) > 0
                      /\ data_resources.list[FirstDict(data_resources.list, "name",
                                                       resources[i].data["name"])]
                            = resources[i].data

C23_Witness ==
    /\ Sync /\ last.outcome = "ok" /\ data_resources.present
    /\ Cardinality(UploadedNames) = 2
    /\ \E u \in UploadPositions : ~Has(Local(calls[u].fields["name"]).data, "id")

----------------------------------------------------------------------------
(* Claims about the existence probe *)

ShowPositions == Positions({"package_show"})

\* the probe ended without a copy: every package_show was answered not found
NoCopyLoaded == \A i \in ShowPositions : calls[i].status = "notfound"

\* C24: in create_in_hdx and update_in_hdx a load by id that finds nothing is
\* followed by a load by name; update_in_hdx that could load no copy by id
\* nor by name raises without any call but the probes, and with a copy loaded
\* and valid local resources it does issue package_update; create_in_hdx that
\* could load no copy goes on to package_create when its resources are valid
C24_StaleIdFallsThrough ==
    (Sync /\ calls # <<>>) =>
        /\ (/\ Has(pre.data, "id") /\ Has(pre.data, "name")
            /\ calls[1].status = "notfound") =>
              /\ calls[1].action = "package_show" /\ calls[1].ident = pre.data["id"]
              /\ Len(calls) >= 2
              /\ calls[2].action = "package_show" /\ calls[2].ident = pre.data["name"]
        /\ (last.op = "update_in_hdx" /\ NoCopyLoaded) =>
              /\ last.outcome = "raised"
              /\ ShowPositions = DOMAIN calls
              /\ remote = pre.remote
        /\ (/\ last.op = "update_in_hdx" /\ ProbeFound
            /\ ~CheckResources(pre.resources, 1, {"package_id"}).raised) =>
              Cardinality(Positions({"package_update"})) = 1
        /\ (/\ last.op = "create_in_hdx" /\ NoCopyLoaded
            /\ ~CheckResources(pre.resources, 1, {"package_id"}).raised) =>
              /\ Cardinality(Positions({"package_create"})) = 1
              /\ Positions({"package_update"}) = {}
              /\ \A c \in Positions({"package_create"}), i \in ShowPositions : i < c

C24_Witness ==
    /\ last.op = "update_in_hdx"
    /\ Has(pre.data, "id") /\ Has(pre.data, "name")
    /\ Len(calls) >= 3
    /\ calls[1].action = "package_show" /\ calls[1].status = "notfound"
    /\ calls[2].action = "package_show" /\ calls[2].status = "ok"
    /\ calls[3].action = "package_update"

----------------------------------------------------------------------------
(* Claims about the global configuration *)

\* the global configuration that the last call found, the Configuration it
\* was passed, and whether building one from its kwargs raises
Found == last.args[1]
Passed == last.args[2]
KwargsRejected == last.args[3]

----------------------------------------------------------------------------
(* Claims about the update frequency *)

Codes == {<<"-","2">>, <<"-","1">>, <<"0">>, <<"1">>, <<"7">>, <<"1","4">>,
          <<"3","0">>, <<"9","0">>, <<"1","8","0">>, <<"3","6","5">>}

\* the canonical label of each alias
Aliases ==
       (<<"d","a","i","l","y">> :> <<"E","v","e","r","y"," ","d","a","y">>)
    @@ (<<"w","e","e","k","l","y">> :> <<"E","v","e","r","y"," ","w","e","e","k">>)
    @@ (<<"f","o","r","t","n","i","g","h","t","l","y">> :> <<"E","v","e","r","y"," ","t","w","o"," ","w","e","e","k","s">>)
    @@ (<<"e","v","e","r","y"," ","o","t","h","e","r"," ","w","e","e","k">> :> <<"E","v","e","r","y"," ","t","w","o"," ","w","e","e","k","s">>)
    @@ (<<"m","o","n","t","h","l","y">> :> <<"E","v","e","r","y"," ","m","o","n","t","h">>)
    @@ (<<"q","u","a","r","t","e","r","l","y">> :> <<"E","v","e","r","y"," ","t","h","r","e","e"," ","m","o","n","t","h","s">>)
    @@ (<<"s","e","m","i","a","n","n","u","a","l","l","y">> :> <<"E","v","e","r","y"," ","s","i","x"," ","m","o","n","t","h","s">>)
    @@ (<<"s","e","m","i","y","e","a","r","l","y">> :> <<"E","v","e","r","y"," ","s","i","x"," ","m","o","n","t","h","s">>)
    @@ (<<"a","n","n","u","a","l","l","y">> :> <<"E","v","e","r","y"," ","y","e","a","r">>)
    @@ (<<"y","e","a","r","l","y">> :> <<"E","v","e","r","y"," ","y","e","a","r">>)

TransformCalled == last.op = "transform_update_frequency"
Frequency == last.args[1]
Result == last.args[2]
ResultOfResult == last.args[3]

\* C26: transform_update_frequency applied twice to a numeric code gives the
\* code back; 'Every month' gives '30' and '30' gives 'Every month'; a label
\* in any case gives the code of the label ('EVERY MONTH' gives '30'); and an
\* alias gives the same code as its canonical label
C26_FrequencyRoundTrip ==
    TransformCalled =>
        /\ Frequency \in Codes => ResultOfResult = Frequency
        /\ Frequency = <<"E","v","e","r","y"," ","m","o","n","t","h">>
              => Result = <<"3","0">>
        /\ Frequency = <<"3","0">>
              => Result = <<"E","v","e","r","y"," ","m","o","n","t","h">>
        /\ Frequency = <<"E","V","E","R","Y"," ","M","O","N","T","H">>
              => Result = <<"3","0">>
        /\ \A c \in Codes :
              lower(Frequency) = lower(update_frequencies[c]) => Result = c
        /\ \A a \in DOMAIN Aliases :
              lower(Frequency) = a
                  => Result \in Codes /\ Result = transform_update_frequency(Aliases[a])

\* an alias in upper case was transformed to the code of its canonical label
C26_Witness ==
    /\ TransformCalled
    /\ Frequency = upper(<<"m","o","n","t","h","l","y">>)
    /\ Result = <<"3","0">>
    /\ ResultOfResult = <<"E","v","e","r","y"," ","m","o","n","t","h">>

----------------------------------------------------------------------------
(* Claims about the dataset date *)

DateSet == last.op = "set_dataset_date_from_datetime"
StartGiven == last.args[1]
EndGiven == last.args[2]
DatePart(d) == IF d.isNone THEN d ELSE [d EXCEPT !.hour = 0]
Returned(d) == [raised |-> FALSE, value |-> d]

\* C27: after set_dataset_date_from_datetime(d) with no end date the start
\* getter returns the date part of d, the end getter returns None and the
\* type is 'date'; after set_dataset_date_from_datetime(s, e) the getters
\* return the date parts of s and e and the type is 'range'
C27_DateRoundTrip ==
    DateSet =>
        /\ get_dataset_date_as_datetime(data) = Returned(DatePart(StartGiven))
        /\ get_dataset_end_date_as_datetime(data) = Returned(DatePart(EndGiven))
        /\ get_dataset_date_type(data) = IF EndGiven.isNone THEN "date" ELSE "range"

----------------------------------------------------------------------------
(* Claims about the maintainer *)

MaintainerCalled == last.op = "set_maintainer"
MaintainerGiven == last.args[1]
ByNameOnly ==
    /\ MaintainerGiven.type \in {"dict", "User"}
    /\ MaintainerGiven.id = None
    /\ MaintainerGiven.name # None
MaintainerOf(d) == IF Has(d, "maintainer") THEN d["maintainer"] ELSE None

\* C28: set_maintainer given a dict or User without 'id' but with 'name' looks
\* the user up by name and stores only the id found; after a call that
\* succeeds data['maintainer'] is a valid UUID; after a call that raises
\* data['maintainer'] is as it was
C28_MaintainerIsUuid ==
    MaintainerCalled =>
        /\ ByNameOnly =>
              /\ calls = <<ShowCall("user_show", MaintainerGiven.name)>>
              /\ last.outcome = ""
                    => data = DictSet(pre.data, "maintainer",
                                      UserReadFromHdx(MaintainerGiven.name))
        /\ last.outcome = "" =>
              /\ Has(data, "maintainer")
              /\ is_valid_uuid(data["maintainer"])
        /\ last.outcome # "" => MaintainerOf(data) = MaintainerOf(pre.data)

\* a dict with a name only replaced the maintainer by the user looked up
C28_Witness ==
    /\ MaintainerCalled
    /\ MaintainerGiven = Maintainer("dict", None, "ann")
    /\ last.outcome = ""
    /\ MaintainerOf(pre.data) = "c2d4e6f8-uuid"
    /\ MaintainerOf(data) = "7e1b1a0c-uuid"
    /\ Len(calls) = 1

----------------------------------------------------------------------------
(* Claims about requestable datasets *)

\* the save calls of the last operation whose payload is a requestable dataset
RequestableSaves ==
    {i \in 1..Len(calls) :
        /\ calls[i].action \in {"package_create", "package_update"}
        /\ is_requestable(calls[i].fields)}

\* create_in_hdx was called on a requestable dataset that has every field the
\* dataset-requestable schema requires, the catalog does not hold the dataset
\* and every call is answered
RequestableCreate ==
    /\ last.op = "create_in_hdx"
    /\ last.failAt = 0
    /\ is_requestable(pre.data)
    /\ _check_required_fields(pre.data, "dataset-requestable", {})
    /\ ~Has(pre.data, "id")
    /\ ~pre.remote.exists

\* C29a: no save payload of a requestable dataset has a non-empty resources
\* array
C29a_NoResourcesSent ==
    \A i \in RequestableSaves : ~calls[i].hasRes \/ calls[i].res = <<>>

\* C29b: a requestable dataset is validated against the dataset-requestable
\* schema only, so its resources do not make create_in_hdx raise
C29b_NoResourceValidated ==
    RequestableCreate => last.outcome = "ok"

\* C29: no save payload of a requestable dataset has a non-empty resources
\* array, and a requestable dataset is validated against the
\* dataset-requestable schema only, without validating any resource
C29_RequestableXorResources == C29a_NoResourcesSent /\ C29b_NoResourceValidated

----------------------------------------------------------------------------
(* Claims about the Datasets returned by search_in_hdx and get_all_datasets *)

Returns == pc = "returned" /\ ~all_datasets.isNone
ReturnedDatasets == {all_datasets.list[k] : k \in DOMAIN all_datasets.list}
RawOf(dataset) == RawResources(dataset.data.id)

\* data has no 'resources' key and the resources are those of the raw
\* record's array, one Resource per entry and in its order
Separated(dataset) ==
    /\ ~dataset.data_resources.present
    /\ Len(dataset.resources) = Len(RawOf(dataset).list)
    /\ \A i \in 1..Len(dataset.resources) :
          /\ dataset.resources[i].data = RawOf(dataset).list[i]
          /\ dataset.resources[i].file_to_upload = None

\* C30: every Dataset returned has old_data without keys, no 'resources' key
\* in data, and one Resource per entry of the raw record's resources array
C30_ReturnedFresh ==
    Returns =>
        \A dataset \in ReturnedDatasets :
            /\ ~dataset.old_data.isNone
            /\ dataset.old_data.fields = EmptyDict
            /\ ~dataset.old_data.hasRes
            /\ Separated(dataset)

\* C30 amended: old_data has no key but 'resources', which it has, with an
\* empty list, exactly when the raw record has a 'resources' key
C30_ReturnedFreshAmended ==
    Returns =>
        \A dataset \in ReturnedDatasets :
            /\ ~dataset.old_data.isNone
            /\ dataset.old_data.fields = EmptyDict
            /\ dataset.old_data.hasRes <=> RawOf(dataset).present
            /\ dataset.old_data.res = <<>>
            /\ Separated(dataset)

\* a search returned the dataset whose raw record has two resources
C30_Witness ==
    /\ Returns
    /\ \E dataset \in ReturnedDatasets :
          /\ dataset.data.id = 3
          /\ Len(dataset.resources) = 2
          /\ dataset.old_data.hasRes

----------------------------------------------------------------------------
(* Claims about the local files of create_datastore *)

DatastoreCalled == last.op = "create_datastore"
FileObtained == last.flag
PathGiven == last.args[1]
FilesCreated == last.args[3]

\* C31: when create_datastore ends after it obtained its local file, however
\* it ends, none of the files it made (the download, the file extracted from
\* a zip archive) is left, and a file given through path is still there
C31_LocalFilesRemoved ==
    (DatastoreCalled /\ FileObtained) =>
        /\ FilesCreated \cap files = {}
        /\ PathGiven # None => PathGiven \in files

----------------------------------------------------------------------------
(* Claims about the identifier sent after a stale id *)

\* the load by the local id found nothing and the load by name found a copy
StaleIdThenName ==
    /\ Sync /\ Len(calls) >= 2
    /\ Has(pre.data, "id") /\ Has(pre.data, "name")
    /\ calls[1].action = "package_show" /\ calls[1].ident = pre.data["id"]
    /\ calls[1].status = "notfound"
    /\ calls[2].action = "package_show" /\ calls[2].ident = pre.data["name"]
    /\ calls[2].status = "ok"

\* C32: when the load by the local id fails and the load by name succeeds,
\* package_update carries the id of the dataset found by name, not the local
\* id
C32_UpdateCarriesFoundId ==
    StaleIdThenName =>
        \A i \in Positions({"package_update"}) :
            /\ Has(calls[i].fields, "id")
            /\ calls[i].fields["id"] = pre.remote.fields["id"]

----------------------------------------------------------------------------
(* Claims about update_in_hdx(update_resources=False) *)

UpdateWithoutResources == last.op = "update_in_hdx" /\ ~last.flag

\* the payload sends the resources rs, a list without elements not being sent
SendsResources(c, rs) ==
    IF rs = <<>> THEN ~c.hasRes \/ c.res = <<>> ELSE c.hasRes /\ c.res = rs

\* C33: update_in_hdx(update_resources=False) sends in package_update exactly
\* the resources of the catalog's copy, whatever the local resources are,
\* issues no resource_update even when a local resource has a file to
\* upload, and sends the dataset fields merged, the local values winning
C33_RemoteResourcesKept ==
    UpdateWithoutResources =>
        /\ Positions({"resource_update"}) = {}
        /\ \A i \in Positions({"package_update"}) :
              /\ SendsResources(calls[i], pre.remote.resources)
              /\ \A k \in DOMAIN pre.data : calls[i].fields[k] = pre.data[k]
              /\ \A k \in (DOMAIN pre.remote.fields) \ (DOMAIN pre.data) :
                    calls[i].fields[k] = pre.remote.fields[k]

\* the catalog holds a resource, the dataset another one with a file to
\* upload, and the update without resources went through
C33_Witness ==
    /\ UpdateWithoutResources
    /\ last.outcome = "ok"
    /\ pre.remote.resources # <<>>
    /\ \E i \in DOMAIN pre.resources :
          /\ pre.resources[i].file_to_upload # None
          /\ \A j \in DOMAIN pre.remote.resources :
                pre.remote.resources[j]["name"] # pre.resources[i].data["name"]
    /\ Positions({"package_update"}) # {}

----------------------------------------------------------------------------
(* Claims about failures during a sync *)

Failed(i) == calls[i].status # "ok"

\* the catalog still holds what the save call at s sent
StillSaved(s) ==
    /\ remote.exists
    /\ \A k \in DOMAIN calls[s].fields : k # "id" =>
          Has(remote.fields, k) /\ remote.fields[k] = calls[s].fields[k]

\* C34: when the dataset save call fails, create_in_hdx / update_in_hdx raises
\* and issues no resource_update and no package_hxl_update; when a deferred
\* resource_update fails, the call raises, no resource_update and no
\* package_hxl_update follows, and the dataset save that went through is
\* neither issued again nor undone
C34_FailureStops ==
    Sync =>
        /\ \A s \in SavePositions : Failed(s) =>
              /\ last.outcome = "raised"
              /\ UploadPositions = {} /\ HxlPositions = {}
        /\ \A u \in UploadPositions : Failed(u) =>
              /\ last.outcome = "raised"
              /\ \A j \in UploadPositions \cup HxlPositions : j <= u
              /\ Cardinality(SavePositions) = 1
              /\ \A s \in SavePositions : ~Failed(s) /\ StillSaved(s)

\* the first of two deferred uploads failed after the dataset was saved
C34_Witness ==
    /\ Sync
    /\ \E u \in UploadPositions : Failed(u)
    /\ Cardinality(UploadPositions) = 1
    /\ Cardinality({i \in DOMAIN pre.resources :
                       pre.resources[i].file_to_upload # None}) = 2
    /\ last.outcome = "raised"

----------------------------------------------------------------------------
(* Claims about repeated validation of a resource *)

\* the ignore_fields of the check that just succeeded
IgnoredFields == last.args[1]

\* a second check of the resource as the first check left it
CheckedAgain == ResourceCheckRequiredFields(After, IgnoredFields)

\* C35: after check_required_fields succeeded on a resource, a second call
\* with the same ignore_fields and the same file_to_upload succeeds too and
\* leaves data exactly as the first call left it
C35_CheckIdempotent ==
    Checked => /\ ~CheckedAgain.raised
               /\ CheckedAgain.res = After

\* the first check wrote defaults and removed tracking_summary for a resource
\* with a pending file
C35_Witness ==
    /\ Checked
    /\ After.file_to_upload # None
    /\ Has(Before.data, "tracking_summary")
    /\ ~Has(Before.data, "url")
    /\ After.data # Before.data

----------------------------------------------------------------------------
(* Claims about a resource with neither a url nor a file to upload *)

\* the resource has no url field and no pending file
Sourceless(res) == res.file_to_upload = None /\ ~Has(res.data, "url")

\* check_required_fields of such a resource raises and returns it unchanged
RaisesUnchanged(res) ==
    LET c == ResourceCheckRequiredFields(res, {"package_id"})
    IN  c.raised /\ c.res = res

\* create_in_hdx was called on a dataset holding such a resource
CreateWithSourceless ==
    /\ last.op = "create_in_hdx"
    /\ \E i \in DOMAIN pre.resources : Sourceless(pre.resources[i])

\* the validation of the resources up to the first sourceless one leaves
\* that one as it was
SourcelessKept ==
    \A i \in DOMAIN pre.resources : Sourceless(pre.resources[i]) =>
        /\ RaisesUnchanged(pre.resources[i])
        /\ i \in DOMAIN resources /\ resources[i] = pre.resources[i]

\* C36: check_required_fields of a resource with neither a url nor a pending
\* file raises and leaves its data unchanged; create_in_hdx on a dataset
\* holding such a resource raises before any gateway call
C36_SourcelessRaisesFirst ==
    CreateWithSourceless =>
        /\ SourcelessKept
        /\ last.outcome = "raised"
        /\ calls = <<>>

----------------------------------------------------------------------------
(* Claims about set_expected_update_frequency *)

FrequencySetCalled == last.op = "set_expected_update_frequency"
FrequencyGiven == last.args[1]
FrequencyRead == last.args[2]
FrequencyOf(d) ==
    IF Has(d, "data_update_frequency") THEN d["data_update_frequency"]
    ELSE NoFrequency

\* the numeric codes of the vocabulary and its labels
NumericCodes == {k \in DOMAIN update_frequencies : IsInt(k)}
Labels == {update_frequencies[k] : k \in NumericCodes}

\* the text is one of the numeric codes or, in any case, one of the labels
\* or aliases
InVocabulary(frequency) == lower(frequency) \in DOMAIN update_frequencies

\* C37: set_expected_update_frequency raises for an input that is neither a
\* numeric code nor a label or alias of the vocabulary and leaves
\* data['data_update_frequency'] unchanged; after a call that succeeds
\* data['data_update_frequency'] is one of the numeric codes and
\* get_expected_update_frequency returns a label
C37_FrequencyIsCode ==
    FrequencySetCalled =>
        /\ ~InVocabulary(FrequencyGiven) =>
              /\ last.outcome = "HDXError"
              /\ FrequencyOf(data) = FrequencyOf(pre.data)
        /\ last.outcome = "" =>
              /\ FrequencyOf(data) \in NumericCodes
              /\ FrequencyRead \in Labels

----------------------------------------------------------------------------
(* Claims about reading the global configuration and its remote CKAN *)

\* the call that the step makes
Calls(op) == last'.op = op

\* the step installs a global configuration: the Configuration passed in, or
\* one built from the kwargs, with no remote CKAN unless create sets one up
Installs ==
    /\ ~_configuration'.isNone
    /\ ~last'.args[2].isNone =>
          [_configuration' EXCEPT !.remoteckan = FALSE] = last'.args[2]
    /\ _configuration'.remoteckan => Calls("create")

\* the step leaves the global configuration as it is, but for its remote CKAN
KeepsInstalled ==
    [_configuration' EXCEPT !.remoteckan = FALSE]
        = [_configuration EXCEPT !.remoteckan = FALSE]

\* C38: read raises ConfigurationError exactly when no global configuration
\* is set, which is so initially and after delete, and otherwise returns the
\* global configuration, which is the one that the latest create or setup
\* installed; remoteckan() on a configuration raises ConfigurationError as
\* long as neither setup_remoteckan nor create has set up a remote CKAN on it
C38_ReadLatest ==
    /\ [](nops = 0 => _configuration.isNone)
    /\ [][Calls("delete") => _configuration'.isNone]_vars
    /\ [][Calls("read") =>
            /\ (last'.outcome = "ConfigurationError") <=> _configuration.isNone
            /\ _configuration' = _configuration]_vars
    /\ [][(Calls("create") \/ Calls("setup")) =>
            \/ Installs
            \/ last'.outcome = "ConfigurationError" /\ _configuration' = _configuration]_vars
    /\ [][(Calls("setup_remoteckan") \/ Calls("remoteckan")) => KeepsInstalled]_vars
    /\ [][(~_configuration.remoteckan /\ _configuration'.remoteckan) =>
            Calls("create") \/ Calls("setup_remoteckan")]_vars
    /\ [][Calls("remoteckan") =>
            /\ _configuration' = _configuration
            /\ ~_configuration.remoteckan => last'.outcome = "ConfigurationError"
            /\ _configuration.remoteckan => last'.outcome = ""]_vars

\* remoteckan() raised on a global configuration that create installed
\* without a remote CKAN, after read returned it
C38_Witness ==
    /\ last.op = "remoteckan"
    /\ last.outcome = "ConfigurationError"
    /\ ~_configuration.isNone
    /\ ~_configuration.remoteckan
    /\ nops = 3

----------------------------------------------------------------------------
(* Claims about the offsets and rows of a pagination pass *)

\* C39: in a pagination pass with rows (limit) R and start (offset) S, page p
\* is requested at offset S + p * page_size, every page request asks for at
\* most page_size rows, and the rows requested over the pass sum to at most
\* R; the catalog returning at most the rows requested of each page, the
\* list of the pass, and so the list returned, has at most R datasets
C39_PassWithinRows ==
    /\ \A k \in DOMAIN passlog :
          /\ passlog[k].request.start = start + (k - 1) * page_size
          /\ passlog[k].request.rows <= page_size
    /\ RowsRequested(Len(passlog)) <= total_rows
    /\ Len(all_datasets.list) <= total_rows

\* a search for one row short of two pages returned that many datasets,
\* found in two page requests
C39_Witness ==
    /\ pc = "returned"
    /\ start = MaxStart
    /\ total_rows = 2 * page_size - 1
    /\ Len(passlog) = 2
    /\ RowsRequested(2) = total_rows
    /\ Len(all_datasets.list) = total_rows

====
